---- MODULE Spec2Model ----
(***************************************************************************)
(* The incremental FST builder of src/core/util/fst/fst_builder.rs:        *)
(* FstBuilder (add, freeze_tail, compile_node, compile_all_targets,        *)
(* finish), UnCompiledNode and NodeHash.  The compiled store (FST), the    *)
(* arc reader and the output algebra are collaborators whose code is not   *)
(* part of the sources; they are modelled from the specification.          *)
(***************************************************************************)
EXTENDS Integers, Sequences, FiniteSets, TLC

----------------------------------------------------------------------------
(* Bounds of the exploration *)

MaxLabel == 2
MaxLen == 2
MaxOutput == 2
MaxAdds == 3

Labels == 1..MaxLabel
Outputs == 0..MaxOutput
Keys == UNION {[1..n -> Labels] : n \in 0..MaxLen}

----------------------------------------------------------------------------
(* Program constants *)

FrontierInit == 10
FrontierCapacity == 10
TableInit == 16
Prime == 31
FinalBump == 17
FINAL_END_NODE == -1
NON_FINAL_END_NODE == 0
MaxTail == 2147483647
NullPtr == -1
\* a pointer into a frontier buffer that was given back when the Vec grew
Dangling == -2
\* 0u32 - 1 without overflow checks: 4294967295, written as a token because
\* it is above every integer the tail lengths and their limit take here
U32Wrapped == -1

----------------------------------------------------------------------------
(* Output algebra: non-negative integers under addition *)

NoOutput == 0
OutAdd(a, b) == a + b
OutSubtract(a, b) == a - b
OutCommon(a, b) == IF a < b THEN a ELSE b
OutMerge(a, b) == IF a < b THEN b ELSE a

----------------------------------------------------------------------------
(* 64-bit unsigned arithmetic on four 16-bit limbs, least significant first *)

Limb == 65536
U64Zero == <<0, 0, 0, 0>>
U64(n) == <<n % Limb, (n \div Limb) % Limb, 0, 0>>

AddCarry(a, b) ==
    LET s1 == a[1] + b[1]
        s2 == a[2] + b[2] + (s1 \div Limb)
        s3 == a[3] + b[3] + (s2 \div Limb)
        s4 == a[4] + b[4] + (s3 \div Limb)
    IN [sum |-> <<s1 % Limb, s2 % Limb, s3 % Limb, s4 % Limb>>,
        carry |-> s4 \div Limb]

WrappingAdd(a, b) == AddCarry(a, b).sum

WrappingMul(k, a) ==
    LET p1 == k * a[1]
        p2 == k * a[2] + (p1 \div Limb)
        p3 == k * a[3] + (p2 \div Limb)
        p4 == k * a[4] + (p3 \div Limb)
    IN <<p1 % Limb, p2 % Limb, p3 % Limb, p4 % Limb>>

\* h & mask, for a mask of the form 2^k - 1 below 2^16
AndMask(h, mask) == h[1] % (mask + 1)

\* DefaultHasher::new(); v.hash(&mut state); state.finish() for an i64 v:
\* SipHash-1-3 with both keys 0 over the eight little-endian bytes of v.
\* HashCodeTable[v + 1] is that digest for v in 0..32, as limbs.
HashCodeTable ==
    <<<<40517, 22727, 44214, 48480>>,
      <<11737, 25046, 29505, 7839>>,
      <<47126, 53538, 4208, 42195>>,
      <<40186, 39232, 26390, 64908>>,
      <<26001, 51693, 21751, 21975>>,
      <<32540, 6425, 60165, 56112>>,
      <<50600, 58832, 62046, 64472>>,
      <<35451, 42238, 45245, 26164>>,
      <<29546, 19300, 33747, 8541>>,
      <<18704, 26598, 55292, 46509>>,
      <<42119, 57760, 11465, 61002>>,
      <<51182, 9742, 48305, 5501>>,
      <<3000, 5179, 599, 33182>>,
      <<56799, 31172, 5741, 21457>>,
      <<37522, 40224, 7463, 5878>>,
      <<534, 13953, 43333, 4519>>,
      <<12003, 43439, 4892, 24869>>,
      <<62758, 48750, 50428, 30024>>,
      <<42531, 5307, 65089, 25874>>,
      <<51538, 59706, 7608, 18119>>,
      <<22902, 21093, 45889, 57554>>,
      <<40566, 38186, 9995, 19811>>,
      <<23700, 55506, 43809, 16600>>,
      <<40981, 60866, 34668, 348>>,
      <<58619, 43088, 13994, 2611>>,
      <<33237, 1113, 43441, 64543>>,
      <<35678, 26482, 31568, 5843>>,
      <<55679, 22107, 38490, 58250>>,
      <<3073, 43546, 51626, 19703>>,
      <<35384, 18324, 39213, 33406>>,
      <<6004, 59383, 3822, 28356>>,
      <<33692, 4515, 33393, 63765>>,
      <<8751, 27451, 9210, 26184>>>>

\* hash_code: the DefaultHasher digest of an output value
HashCode(v) == HashCodeTable[v + 1]

\* (n ^ (n >> 32)) as u64 for an address n: n itself for 0 <= n < 2^32,
\* and 0 for n = -1 (all bits set, arithmetic shift)
FoldAddr(n) == IF n < 0 THEN U64Zero ELSE U64(n)

----------------------------------------------------------------------------
(* The state of a build *)

VARIABLES
    cfg,               \* min_suffix_count1/2, do_share_suffix, do_share_non_singleton_nodes, share_max_tail_length,
                       \* overflow_checks: whether the build checks integer arithmetic,
                       \* and fixed_array: whether the store lays nodes out as fixed-size arc arrays
    place,             \* where the builder value stands: 0, then one more for every move
    inits,             \* the number of init calls made
    frontier,          \* frontier[d + 1] is the pending node of depth d
    last_input,        \* the previous key
    nodes,             \* the compiled store
    empty_output,      \* fst.empty_output
    dedup_hash,        \* the NodeHash, when suffixes are shared
    last_frozen_node,
    status,            \* "building", "finished", "failed" (Err returned), "panicked" or "ub"
    err,               \* what stopped the build
    result,            \* what finish returned: "pending", "none" or "fst"
    start_node,        \* the address handed to fst.finish
    added,             \* history: the (key, output) pairs of the add calls that returned Ok
    call               \* history: the last call made, and whether the store refused a write in it

vars == <<cfg, place, inits, frontier, last_input, nodes, empty_output, dedup_hash,
          last_frozen_node, status, err, result, start_node, added, call>>

None == [some |-> FALSE, val |-> NoOutput]
Some(v) == [some |-> TRUE, val |-> v]

Fail(b, why) == [b EXCEPT !.err = why]

\* the builder's fields as one value
Builder ==
    [frontier |-> frontier, last_input |-> last_input, nodes |-> nodes,
     empty_output |-> empty_output, dedup |-> dedup_hash,
     last_frozen_node |-> last_frozen_node, err |-> "",
     io_left |-> -1, io_failed |-> FALSE, froze |-> <<>>, place |-> place]

----------------------------------------------------------------------------
(* Pending nodes and arcs *)

Compiled(a) == [kind |-> "Compiled", ref |-> a]
UnCompiled(p) == [kind |-> "UnCompiled", ref |-> p]

\* UnCompiledNode::new(owner, depth): owner is the address of the builder
\* at the time of the call
NewNode(owner, d) ==
    [owner |-> owner, num_arcs |-> 0, arcs |-> <<>>, output |-> NoOutput,
     is_final |-> FALSE, input_count |-> 0, depth |-> d]

\* builder(): "unsafe { &(*self.owner) }" reads the builder where it stood
\* when the node was made; b.place is where it stands now
OwnerLive(b, n) == n.owner = b.place

\* mutant of clear: input_count kept
ClearKeepingCount(n) ==
    [n EXCEPT !.num_arcs = 0, !.is_final = FALSE, !.output = NoOutput]

\* mutant of clear: the arcs kept live
ClearKeepingArcs(n) ==
    [n EXCEPT !.is_final = FALSE, !.output = NoOutput, !.input_count = 0]

Clear(n) ==
    [n EXCEPT !.num_arcs = 0, !.is_final = FALSE, !.output = NoOutput,
              !.input_count = 0]

\* the assertions of get_last_output, set_last_output, replace_last, delete_last
LastMatches(n, label) == n.num_arcs > 0 /\ n.arcs[n.num_arcs].label = label

GetLastOutput(n) == n.arcs[n.num_arcs].output

\* mutant of set_last_output: the arc's output left as it was
SetLastOutputKept(n, new_output) == n

SetLastOutput(n, new_output) ==
    [n EXCEPT !.arcs[n.num_arcs].output = new_output]

AddArcOk(n, label) ==
    label > 0 /\ (n.num_arcs = 0 \/ label > n.arcs[n.num_arcs].label)

AddArc(n, label, target) ==
    LET new_arc == [label |-> label, target |-> target, is_final |-> FALSE,
                    output |-> NoOutput, next_final_output |-> NoOutput]
    IN [n EXCEPT !.arcs = IF n.num_arcs = Len(n.arcs)
                           THEN Append(n.arcs, new_arc)
                           ELSE [n.arcs EXCEPT ![n.num_arcs + 1] = new_arc],
                 !.num_arcs = n.num_arcs + 1]

ReplaceLast(n, target, next_final_output, is_final) ==
    [n EXCEPT !.arcs[n.num_arcs].target = target,
              !.arcs[n.num_arcs].next_final_output = next_final_output,
              !.arcs[n.num_arcs].is_final = is_final]

\* mutant of delete_last: the first arc removed, the others moved down
DeleteFirst(n) ==
    [n EXCEPT !.arcs = [i \in 1..Len(@) |-> IF i < Len(@) THEN @[i + 1] ELSE @[i]],
              !.num_arcs = n.num_arcs - 1]

DeleteLast(n) == [n EXCEPT !.num_arcs = n.num_arcs - 1]

\* mutant of prepend_output: arcs to compiled targets left as they are
PrependOutputPendingOnly(n, output_prefix) ==
    [n EXCEPT
       !.arcs = [i \in 1..Len(n.arcs) |->
                   IF i <= n.num_arcs /\ n.arcs[i].target.kind = "UnCompiled"
                   THEN [n.arcs[i] EXCEPT !.output = OutAdd(output_prefix, n.arcs[i].output)]
                   ELSE n.arcs[i]],
       !.output = IF n.is_final THEN OutAdd(output_prefix, n.output) ELSE n.output]

\* prepend_output calls builder() once per live arc and once for a final node
PrependDerefs(n) == n.num_arcs > 0 \/ n.is_final

PrependOutput(n, output_prefix) ==
    [n EXCEPT
       !.arcs = [i \in 1..Len(n.arcs) |->
                   IF i <= n.num_arcs
                   THEN [n.arcs[i] EXCEPT !.output = OutAdd(output_prefix, n.arcs[i].output)]
                   ELSE n.arcs[i]],
       !.output = IF n.is_final THEN OutAdd(output_prefix, n.output) ELSE n.output]

----------------------------------------------------------------------------
(* Compiled store: the sequence of frozen nodes, a node's address being    *)
(* its ordinal (1, 2, ...); address 0 and -1 are the two end nodes.        *)

\* FST::add_node on the live arcs of a pending node
FrozenArcs(n) ==
    [i \in 1..n.num_arcs |->
       [label |-> n.arcs[i].label, output |-> n.arcs[i].output,
        next_final_output |-> n.arcs[i].next_final_output,
        is_final |-> n.arcs[i].is_final, target |-> n.arcs[i].target.ref]]

AllTargetsCompiled(n) ==
    \A i \in 1..n.num_arcs : n.arcs[i].target.kind = "Compiled"

\* What the arc reader returns for a frozen arc: output and
\* next_final_output are present only when non-empty, the target always
Opt(v) == [some |-> v # NoOutput, val |-> v]

ReadArc(a) ==
    [label |-> a.label, is_final |-> a.is_final, output |-> Opt(a.output),
     next_final_output |-> Opt(a.next_final_output), target |-> a.target]

\* FST::add_node: a node without arcs is one of the two end nodes and writes
\* nothing; any other node is appended to the store, unless the store refuses
\* the write (io_left counts the writes of this call that still go through,
\* a negative value standing for a store that never fails)
AddNode(b, node_in) ==
    IF node_in.num_arcs = 0
    THEN [b |-> b, addr |-> IF node_in.is_final THEN FINAL_END_NODE ELSE NON_FINAL_END_NODE]
    ELSE IF ~AllTargetsCompiled(node_in)
    THEN [b |-> [b EXCEPT !.err = "panic: uncompiled target"], addr |-> 0]
    ELSE IF b.io_left = 0
    THEN [b |-> [b EXCEPT !.err = "error: store write", !.io_failed = TRUE], addr |-> 0]
    ELSE [b |-> [b EXCEPT !.nodes = Append(@, FrozenArcs(node_in)),
                          !.io_left = IF @ > 0 THEN @ - 1 ELSE @],
          addr |-> Len(b.nodes) + 1]

----------------------------------------------------------------------------
(* NodeHash *)

\* NodeHash::new: fst is the address of the builder's fst field, which
\* moves with the builder
NewNodeHash(fst) ==
    [present |-> TRUE, table |-> [i \in 1..TableInit |-> 0], count |-> 0,
     mask |-> TableInit - 1, fst |-> fst]

NoNodeHash == [present |-> FALSE, table |-> <<>>, count |-> 0, mask |-> 0, fst |-> 0]

\* fst(): "unsafe { &mut (*self.fst) }"
FstLive(b) == b.dedup.fst = b.place

\* "return Ok(idx == node.num_arcs - 1)" for the 0-based idx of the last
\* stored arc: num_arcs is a usize, so for a node without live arcs the
\* subtraction panics with overflow checks and wraps to usize::MAX without
LastArcReached(checks, node, idx) ==
    IF node.num_arcs = 0
    THEN IF checks THEN "panic: subtract overflow" ELSE "differ"
    ELSE IF idx = node.num_arcs THEN "equal" ELSE "differ"

\* the loop of nodes_equal from the arc idx (1-based): "equal", "differ" or
\* the panic
RECURSIVE ArcsEqualFrom(_, _, _, _)
ArcsEqualFrom(checks, node, carcs, idx) ==
    IF idx > Len(node.arcs) THEN "differ"
    ELSE LET arc == node.arcs[idx]
             scratch_arc == ReadArc(carcs[idx])
         IN IF arc.label # scratch_arc.label \/ arc.is_final # scratch_arc.is_final
            THEN "differ"
            ELSE IF ~scratch_arc.output.some \/ scratch_arc.output.val # arc.output
            THEN "differ"
            ELSE IF ~scratch_arc.next_final_output.some
                    \/ scratch_arc.next_final_output.val # arc.next_final_output
            THEN "differ"
            ELSE IF arc.target.kind = "Compiled" /\ arc.target.ref # scratch_arc.target
            THEN "differ"
            ELSE IF idx = Len(carcs)
            THEN LastArcReached(checks, node, idx)
            ELSE ArcsEqualFrom(checks, node, carcs, idx + 1)

\* read_first_real_arc_with_layout: the layout of the node at the address is
\* ArcLayoutContext::FixedArray, with the number of arcs in its header, when
\* the store lays nodes out as arrays
FixedArray(b, address) == cfg.fixed_array

\* nodes_equal: for a fixed array the arc counts are compared first (the
\* store writes bytes_per_arc > 0, so the debug_assert holds), then the arcs
\* are compared one by one
NodesEqual(b, node, address) ==
    IF FixedArray(b, address) /\ node.num_arcs # Len(b.nodes[address])
    THEN "differ"
    ELSE ArcsEqualFrom(cfg.overflow_checks, node, b.nodes[address], 1)

\* h = PRIME.wrapping_mul(h).wrapping_add(w)
HashStep(h, w) == WrappingAdd(WrappingMul(Prime, h), w)

\* h += 17 for a final arc
HashFinal(h, is_final) == IF is_final THEN WrappingAdd(h, U64(FinalBump)) ELSE h

HashTargetUncompiled(h, target) ==
    IF target.kind = "Compiled" /\ target.ref # 0
    THEN HashStep(h, FoldAddr(target.ref)) ELSE h

HashOutputUncompiled(h, output) ==
    IF output # NoOutput THEN HashStep(h, HashCode(output)) ELSE h

ArcHashUncompiled(h, arc) ==
    HashFinal(
        HashOutputUncompiled(
            HashOutputUncompiled(
                HashTargetUncompiled(HashStep(h, U64(arc.label)), arc.target),
                arc.output),
            arc.next_final_output),
        arc.is_final)

RECURSIVE HashArcsUncompiled(_, _, _)
\* "for arc in &node.arcs": h is a value before the next arc is mixed in
HashArcsUncompiled(arcs, i, h) ==
    IF i > Len(arcs) THEN h
    ELSE CHOOSE r \in {HashArcsUncompiled(arcs, i + 1, hh) :
                          hh \in {ArcHashUncompiled(h, arcs[i])}} : TRUE

NodeHashUncompiled(node) == HashArcsUncompiled(node.arcs, 1, U64Zero)

\* "h = prime.wrapping_mul(h) + label" adds without wrapping: when the sum
\* passes 2^64 a build with overflow checks panics and one without wraps
HashLabelOverflows(h, label) ==
    AddCarry(WrappingMul(Prime, h), U64(label)).carry > 0

RECURSIVE HashOverflowsFrom(_, _, _)
HashOverflowsFrom(arcs, i, h) ==
    IF i > Len(arcs) THEN FALSE
    ELSE \/ HashLabelOverflows(h, arcs[i].label)
         \/ HashOverflowsFrom(arcs, i + 1, ArcHashUncompiled(h, arcs[i]))

\* node_hash_uncompiled panics
HashOverflows(node) ==
    cfg.overflow_checks /\ HashOverflowsFrom(node.arcs, 1, U64Zero)

HashOutputCompiled(h, output) ==
    IF output.some THEN HashStep(h, HashCode(output.val)) ELSE h

ArcHashCompiled(h, arc) ==
    HashFinal(
        HashOutputCompiled(
            HashOutputCompiled(
                HashStep(HashStep(h, U64(arc.label)), FoldAddr(arc.target)),
                arc.output),
            arc.next_final_output),
        arc.is_final)

RECURSIVE HashArcsCompiled(_, _, _)
HashArcsCompiled(carcs, i, h) ==
    IF i > Len(carcs) THEN h
    ELSE CHOOSE r \in {HashArcsCompiled(carcs, i + 1, hh) :
                          hh \in {ArcHashCompiled(h, ReadArc(carcs[i]))}} : TRUE

NodeHashCompiled(b, n) == HashArcsCompiled(b.nodes[n], 1, U64Zero)

RECURSIVE HashOverflowsCompiledFrom(_, _, _)
HashOverflowsCompiledFrom(carcs, i, h) ==
    IF i > Len(carcs) THEN FALSE
    ELSE \/ HashLabelOverflows(h, carcs[i].label)
         \/ HashOverflowsCompiledFrom(carcs, i + 1, ArcHashCompiled(h, ReadArc(carcs[i])))

\* node_hash_compiled panics
HashOverflowsCompiled(b, n) ==
    cfg.overflow_checks /\ HashOverflowsCompiledFrom(b.nodes[n], 1, U64Zero)

\* mutant of the probe step: a step of two
ProbeNextByTwo(pos, c, mask) == (pos + 2) % (mask + 1)

\* "quadratic probe": c += 1; pos = (pos + c) & mask, c being the value
\* before the increment
ProbeNext(pos, c, mask) == (pos + c + 1) % (mask + 1)

RECURSIVE AddNewProbe(_, _, _, _)
AddNewProbe(table, mask, pos, c) ==
    IF table[pos + 1] = 0 THEN pos
    ELSE AddNewProbe(table, mask, ProbeNext(pos, c, mask), c + 1)

\* add_new on the table d: the table afterwards, and the panic of
\* node_hash_compiled if there was one
AddNew(b, d, address) ==
    IF HashOverflowsCompiled(b, address)
    THEN [d |-> d, err |-> "panic: add overflow"]
    ELSE [d |-> [d EXCEPT !.table[AddNewProbe(d.table, d.mask,
                                      AndMask(NodeHashCompiled(b, address), d.mask),
                                      0) + 1] = address],
          err |-> ""]

\* the loop of rehash over the old table, r being the table so far
RECURSIVE RehashFrom(_, _, _, _)
RehashFrom(b, old_table, i, r) ==
    IF r.err # "" \/ i > Len(old_table) THEN r
    ELSE RehashFrom(b, old_table, i + 1,
                    IF old_table[i] # 0 THEN AddNew(b, r.d, old_table[i]) ELSE r)

RehashDone(b, r) == [b EXCEPT !.dedup = r.d, !.err = r.err]

Rehash(b) ==
    RehashDone(b,
        RehashFrom(b, b.dedup.table, 1,
                   [d |-> [b.dedup EXCEPT
                             !.table = [i \in 1..(2 * Len(b.dedup.table)) |-> 0],
                             !.mask = 2 * Len(b.dedup.table) - 1],
                    err |-> ""]))

\* mutant of the growth rule: the table grown at three quarters
NodeHashGrowLate(b, addr) ==
    [b |-> IF b.dedup.count > (3 * Len(b.dedup.table)) \div 4 THEN Rehash(b) ELSE b,
     addr |-> addr]

\* add, after the table entry is set: "if self.count > 2 * self.table.size() / 3"
NodeHashGrow(b, addr) ==
    [b |-> IF b.dedup.count > (2 * Len(b.dedup.table)) \div 3 THEN Rehash(b) ELSE b,
     addr |-> addr]

\* mutant of add at a free position: the slot given the address less one
NodeHashFreezeZeroBased(r, h, pos) ==
    IF r.b.err # "" THEN r
    ELSE IF HashOverflowsCompiled(r.b, r.addr)
    THEN [b |-> Fail(r.b, "panic: add overflow"), addr |-> r.addr]
    ELSE IF NodeHashCompiled(r.b, r.addr) # h
    THEN [b |-> [r.b EXCEPT !.err = "panic: node hash"], addr |-> r.addr]
    ELSE NodeHashGrow([r.b EXCEPT !.dedup.count = @ + 1,
                                  !.dedup.table[pos + 1] = r.addr - 1],
                      r.addr)

\* add at a free position: r is what fst.add_node returned
NodeHashFreeze(r, h, pos) ==
    IF r.b.err # "" THEN r
    ELSE IF HashOverflowsCompiled(r.b, r.addr)
    THEN [b |-> Fail(r.b, "panic: add overflow"), addr |-> r.addr]
    ELSE IF NodeHashCompiled(r.b, r.addr) # h
    THEN [b |-> [r.b EXCEPT !.err = "panic: node hash"], addr |-> r.addr]
    ELSE NodeHashGrow([r.b EXCEPT !.dedup.count = @ + 1,
                                  !.dedup.table[pos + 1] = r.addr],
                      r.addr)

RECURSIVE NodeHashProbe(_, _, _, _, _)
NodeHashProbe(b, node_in, h, pos, c) ==
    IF b.dedup.table[pos + 1] = 0
    THEN NodeHashFreeze(AddNode(b, node_in), h, pos)
    ELSE IF NodesEqual(b, node_in, b.dedup.table[pos + 1]) = "equal"
    THEN [b |-> b, addr |-> b.dedup.table[pos + 1]]
    ELSE IF NodesEqual(b, node_in, b.dedup.table[pos + 1]) # "differ"
    THEN [b |-> Fail(b, NodesEqual(b, node_in, b.dedup.table[pos + 1])), addr |-> 0]
    ELSE NodeHashProbe(b, node_in, h, ProbeNext(pos, c, b.dedup.mask), c + 1)

NodeHashFrom(b, node_in, h) ==
    NodeHashProbe(b, node_in, h, AndMask(h, b.dedup.mask), 0)

\* NodeHash::add: the hash is computed through fst(), and every later use of
\* the store goes the same way
NodeHashAdd(b, node_in) ==
    IF ~FstLive(b) THEN [b |-> Fail(b, "ub: stale fst"), addr |-> 0]
    ELSE IF HashOverflows(node_in)
    THEN [b |-> Fail(b, "panic: add overflow"), addr |-> 0]
    ELSE NodeHashFrom(b, node_in, NodeHashUncompiled(node_in))

----------------------------------------------------------------------------
(* FstBuilder *)

\* term_count: "self.frontier[0].input_count", an index out of bounds on a
\* builder whose frontier is still empty
TermCountPanics == Len(frontier) = 0

TermCount == frontier[1].input_count

\* mutant of compile_node: the tail length not looked at
UseNodeHashAnyTail(b, node_in, tail_length) ==
    /\ b.dedup.present
    /\ (cfg.do_share_non_singleton_nodes \/ node_in.num_arcs <= 1)

\* compile_node, the condition for going through the dedup table
UseNodeHash(b, node_in, tail_length) ==
    /\ b.dedup.present
    /\ (cfg.do_share_non_singleton_nodes \/ node_in.num_arcs <= 1)
    /\ tail_length # U32Wrapped
    /\ tail_length <= cfg.share_max_tail_length

\* mutant of compile_node: a refused store write taken for address 0
CompileNodeDoneSwallowing(b, node_in, use_hash, r) ==
    IF r.b.err # "" /\ ~r.b.io_failed
    THEN [b |-> r.b, node |-> node_in, addr |-> r.addr]
    ELSE [b |-> [r.b EXCEPT !.err = "", !.last_frozen_node = b.last_frozen_node],
          node |-> Clear(node_in), addr |-> r.addr]

\* compile_node, "node_in.clear()": clear reads no_output through the
\* node's owner
CompileNodeCleared(b, node_in, addr) ==
    IF ~OwnerLive(b, node_in)
    THEN [b |-> Fail(b, "ub: stale owner"), node |-> node_in, addr |-> addr]
    ELSE [b |-> b, node |-> Clear(node_in), addr |-> addr]

\* compile_node once the address r.addr is known: last_frozen_node, clear
CompileNodeDone(b, node_in, use_hash, r) ==
    IF r.b.err # ""
    THEN [b |-> r.b, node |-> node_in, addr |-> r.addr]
    ELSE CompileNodeCleared(
             [r.b EXCEPT !.last_frozen_node =
                 IF Len(r.b.nodes) # Len(b.nodes) THEN r.addr
                 ELSE IF use_hash /\ node_in.num_arcs = 0 THEN r.addr
                 ELSE b.last_frozen_node],
             node_in, r.addr)

CompileNode(b, node_in, tail_length) ==
    CompileNodeDone(b, node_in, UseNodeHash(b, node_in, tail_length),
        IF UseNodeHash(b, node_in, tail_length) /\ node_in.num_arcs # 0
        THEN NodeHashAdd(b, node_in)
        ELSE AddNode(b, node_in))

\* compile_all_targets: a pending target without arcs becomes final, and so
\* does the arc leading to it
FinalIfDead(n) == IF n.num_arcs = 0 THEN [n EXCEPT !.is_final = TRUE] ELSE n

ArcFinalIfDead(node, i, n) ==
    IF n.num_arcs = 0 THEN [node EXCEPT !.arcs[i].is_final = TRUE] ELSE node

RECURSIVE CompileTargetsFrom(_, _, _, _)
RECURSIVE CompileTargetDone(_, _, _, _, _)

\* compile_all_targets, the pending target of arc i: r is what compile_node
\* returned for it
CompileTargetDone(node, tail_length, i, slot, r) ==
    IF r.b.err # ""
    THEN [b |-> [r.b EXCEPT !.frontier[slot] = r.node], node |-> node]
    ELSE CompileTargetsFrom([r.b EXCEPT !.frontier[slot] = r.node],
                            [node EXCEPT !.arcs[i].target = Compiled(r.addr)],
                            tail_length, i + 1)

\* "tail_length as u32 - 1"
TailLess(tail_length) == IF tail_length = 0 THEN U32Wrapped ELSE tail_length - 1

CompileTargetsFrom(b, node, tail_length, i) ==
    IF b.err # "" \/ i > node.num_arcs THEN [b |-> b, node |-> node]
    ELSE IF node.arcs[i].target.kind # "UnCompiled"
    THEN CompileTargetsFrom(b, node, tail_length, i + 1)
    ELSE IF node.arcs[i].target.ref = NullPtr
    THEN [b |-> Fail(b, "ub: null pending target"), node |-> node]
    ELSE IF node.arcs[i].target.ref = Dangling
    THEN [b |-> Fail(b, "ub: dangling pending target"), node |-> node]
    ELSE IF tail_length = 0 /\ cfg.overflow_checks
    THEN [b |-> Fail([b EXCEPT !.frontier[node.arcs[i].target.ref + 1] = FinalIfDead(@)],
                     "panic: subtract overflow"),
          node |-> ArcFinalIfDead(node, i, b.frontier[node.arcs[i].target.ref + 1])]
    ELSE CompileTargetDone(
             ArcFinalIfDead(node, i, b.frontier[node.arcs[i].target.ref + 1]),
             tail_length, i, node.arcs[i].target.ref + 1,
             CompileNode(b, FinalIfDead(b.frontier[node.arcs[i].target.ref + 1]),
                         TailLess(tail_length)))

CompileAllTargets(b, node, tail_length) == CompileTargetsFrom(b, node, tail_length, 1)

\* freeze_tail, "drop all arcs": clear every pending target, then forget the arcs
RECURSIVE ClearTargetsFrom(_, _, _)
ClearTargetsFrom(b, node, i) ==
    IF i > node.num_arcs THEN b
    ELSE IF node.arcs[i].target.kind # "UnCompiled"
    THEN ClearTargetsFrom(b, node, i + 1)
    ELSE IF node.arcs[i].target.ref = NullPtr
    THEN Fail(b, "ub: null pending target")
    ELSE IF node.arcs[i].target.ref = Dangling
    THEN Fail(b, "ub: dangling pending target")
    ELSE IF ~OwnerLive(b, b.frontier[node.arcs[i].target.ref + 1])
    THEN Fail(b, "ub: stale owner")
    ELSE ClearTargetsFrom(
             [b EXCEPT !.frontier[node.arcs[i].target.ref + 1] = Clear(@)], node, i + 1)

DropAllArcs(b, node) ==
    [b |-> ClearTargetsFrom(b, node, 1), node |-> [node EXCEPT !.num_arcs = 0]]

\* mutant of the write-back: the parent's slot left with its temporary node
WriteBackNodeOnly(b, idx, node, parent) ==
    [b EXCEPT !.frontier[idx + 1] = node]

WriteBack(b, idx, node, parent) ==
    [b EXCEPT !.frontier[idx + 1] = node, !.frontier[idx] = parent]

\* history of the call: the depth freeze_tail has dealt with, how, and the
\* target it left on the parent arc (an address, or the pending reference)
Froze(b, idx, fate, ref) == [b EXCEPT !.froze = Append(@, <<idx, fate, ref>>)]

\* mutant of the pruning decision: the absolute rule left out
DoPruneRelativeOnly(node, parent, idx, prefix_len_plus1) ==
    /\ idx > prefix_len_plus1
    /\ \/ parent.input_count < cfg.min_suffix_count2
       \/ (cfg.min_suffix_count2 = 1 /\ parent.input_count = 1 /\ idx > 1)

\* mutant of the pruning decision: the relative rule applied to the topmost
\* orphaned node as well
DoPruneAtBoundary(node, parent, idx, prefix_len_plus1) ==
    \/ node.input_count < cfg.min_suffix_count1
    \/ /\ idx >= prefix_len_plus1
       /\ \/ parent.input_count < cfg.min_suffix_count2
          \/ (cfg.min_suffix_count2 = 1 /\ parent.input_count = 1 /\ idx > 1)

\* the pruning decisions of one freeze_tail iteration
DoPrune(node, parent, idx, prefix_len_plus1) ==
    \/ node.input_count < cfg.min_suffix_count1
    \/ /\ idx > prefix_len_plus1
       /\ \/ parent.input_count < cfg.min_suffix_count2
          \/ (cfg.min_suffix_count2 = 1 /\ parent.input_count = 1 /\ idx > 1)

\* mutant of do_compile: min_suffix_count2 = 0 not looked at
DoCompileAboveBoundaryOnly(node, idx, prefix_len_plus1) ==
    \/ node.input_count < cfg.min_suffix_count1
    \/ idx > prefix_len_plus1

DoCompile(node, idx, prefix_len_plus1) ==
    \/ node.input_count < cfg.min_suffix_count1
    \/ idx > prefix_len_plus1
    \/ cfg.min_suffix_count2 = 0

DoDropArcs(node, idx) ==
    \/ node.input_count < cfg.min_suffix_count2
    \/ (cfg.min_suffix_count2 = 1 /\ node.input_count = 1 /\ idx > 1)

\* mutant of the compile arm: the parent arc given the address after the
\* child's
FreezeCompiledForward(parent, idx, label, next_final_output, is_final, r) ==
    IF r.b.err # "" THEN r.b
    ELSE IF ~LastMatches(parent, label) THEN Fail(r.b, "panic: replace_last")
    ELSE WriteBack(Froze(r.b, idx, "compiled", r.addr), idx, r.node,
                   ReplaceLast(parent, Compiled(r.addr + 1), next_final_output, is_final))

\* freeze_tail, the arm that compiles: r is what compile_node returned
FreezeCompiled(parent, idx, label, next_final_output, is_final, r) ==
    IF r.b.err # "" THEN r.b
    ELSE IF ~LastMatches(parent, label) THEN Fail(r.b, "panic: replace_last")
    ELSE WriteBack(Froze(r.b, idx, "compiled", r.addr), idx, r.node,
                   ReplaceLast(parent, Compiled(r.addr), next_final_output, is_final))

\* mutant of the dead-end rule: the node's own finality only
DeadEndFinalOff(node) == node.is_final

\* freeze_tail: "we fake the node as being final if it has no outgoing arcs"
DeadEndFinal(node) == node.is_final \/ node.num_arcs = 0

\* freeze_tail, the arm that keeps the node: c is the node with its targets
\* compiled when min_suffix_count2 is set
FreezeKept(node0, parent, idx, prefix_len_plus1, len, label, c) ==
    IF c.b.err # "" THEN c.b
    ELSE IF DoCompile(node0, idx, prefix_len_plus1)
    THEN FreezeCompiled(parent, idx, label, c.node.output,
                        DeadEndFinal(c.node),
                        CompileNode(c.b, c.node, 1 + len - idx))
    ELSE IF ~LastMatches(parent, label) THEN Fail(c.b, "panic: replace_last")
    ELSE WriteBack(Froze(c.b, idx, "deferred", NullPtr), idx, NewNode(c.b.place, idx),
                   ReplaceLast(parent, UnCompiled(NullPtr), c.node.output,
                               DeadEndFinal(c.node)))

\* freeze_tail after the arcs were dropped or kept (d): prune, or go on
FreezeDropped(node0, parent, idx, prefix_len_plus1, len, label, d) ==
    IF d.b.err # "" THEN d.b
    ELSE IF DoPrune(node0, parent, idx, prefix_len_plus1)
    THEN IF ~OwnerLive(d.b, d.node) THEN Fail(d.b, "ub: stale owner")
         ELSE IF ~LastMatches(parent, label) THEN Fail(d.b, "panic: delete_last")
         ELSE WriteBack(Froze(d.b, idx, "pruned", 0), idx, Clear(d.node), DeleteLast(parent))
    ELSE FreezeKept(node0, parent, idx, prefix_len_plus1, len, label,
                    IF cfg.min_suffix_count2 # 0
                    THEN CompileAllTargets(d.b, d.node, len - idx)
                    ELSE d)

\* freeze_tail with node and parent taken out of the frontier (bt)
FreezeTaken(bt, node0, parent, idx, prefix_len_plus1) ==
    FreezeDropped(node0, parent, idx, prefix_len_plus1, Len(bt.last_input),
                  bt.last_input[idx],
                  IF DoDropArcs(node0, idx) THEN DropAllArcs(bt, node0)
                  ELSE [b |-> bt, node |-> node0])

\* one iteration of the loop of freeze_tail, for the node of depth idx
FreezeStep(b, idx, prefix_len_plus1) ==
    FreezeTaken([b EXCEPT !.frontier[idx + 1] = NewNode(b.place, 0),
                          !.frontier[idx] = NewNode(b.place, 0)],
                b.frontier[idx + 1], b.frontier[idx], idx, prefix_len_plus1)

RECURSIVE FreezeFrom(_, _, _, _)
FreezeFrom(b, idx, down_to, prefix_len_plus1) ==
    IF b.err # "" \/ idx < down_to THEN b
    ELSE FreezeFrom(FreezeStep(b, idx, prefix_len_plus1), idx - 1, down_to,
                    prefix_len_plus1)

\* mutant of the lower end of freeze_tail: always down to depth 1
DownToOne(prefix_len_plus1) == IF prefix_len_plus1 < 1 THEN 1 ELSE 1

\* max(1, prefix_len_plus1)
DownTo(prefix_len_plus1) == IF prefix_len_plus1 < 1 THEN 1 ELSE prefix_len_plus1

FreezeTail(b, prefix_len_plus1) ==
    IF Len(b.last_input) < DownTo(prefix_len_plus1) THEN b
    ELSE FreezeFrom(b, Len(b.last_input), DownTo(prefix_len_plus1), prefix_len_plus1)

\* IntsRef ordering: lexicographic over the labels
RECURSIVE LexLessFrom(_, _, _)
LexLessFrom(a, b, i) ==
    IF i > Len(a) THEN i <= Len(b)
    ELSE IF i > Len(b) THEN FALSE
    ELSE IF a[i] # b[i] THEN a[i] < b[i]
    ELSE LexLessFrom(a, b, i + 1)

LexLess(a, b) == LexLessFrom(a, b, 1)

\* mutants of the ordering assertion: equal keys let through; the first key
\* compared like every other
InputOrderOkOrEqual(last, input) ==
    Len(last) = 0 \/ LexLess(last, input) \/ last = input

InputOrderStrict(last, input) == LexLess(last, input)

\* the assertion that opens add
InputOrderOk(last, input) == Len(last) = 0 \/ LexLess(last, input)

\* pos1 when the prefix loop of add breaks
RECURSIVE SharedPrefixFrom(_, _, _)
SharedPrefixFrom(last, input, pos1) ==
    IF pos1 >= Len(last) \/ pos1 >= Len(input) \/ last[pos1 + 1] # input[pos1 + 1]
    THEN pos1
    ELSE SharedPrefixFrom(last, input, pos1 + 1)

\* mutant of the prefix loop: the labels not compared
SharedPrefixByLength(last, input) ==
    IF Len(last) < Len(input) THEN Len(last) ELSE Len(input)

SharedPrefix(last, input) == SharedPrefixFrom(last, input, 0)

\* the capacity of a Vec made with capacity FrontierCapacity that holds len
\* elements: a push into a full buffer doubles it
RECURSIVE CapacityFrom(_, _)
CapacityFrom(cap, len) == IF len <= cap THEN cap ELSE CapacityFrom(2 * cap, len)

FrontierCap(len) == CapacityFrom(FrontierCapacity, len)

\* "Node::UnCompiled(&mut self.frontier[i] as *mut ...)" once the buffer it
\* points into has been given back
Dangle(target) ==
    IF target.kind = "UnCompiled" /\ target.ref >= 0 THEN UnCompiled(Dangling)
    ELSE target

DangleNode(n) ==
    [n EXCEPT !.arcs = [i \in 1..Len(n.arcs) |-> [n.arcs[i] EXCEPT !.target = Dangle(@)]]]

\* frontier.push for each of more: the nodes move to a new buffer when the
\* old one is too small
PushNodes(fr, more) ==
    IF Len(fr) + Len(more) > FrontierCap(Len(fr))
    THEN [i \in 1..Len(fr) |-> DangleNode(fr[i])] \o more
    ELSE fr \o more

\* add, "if self.frontier.len() < input.length + 1"
GrowFrontier(fr, len, owner) ==
    IF Len(fr) < len + 1
    THEN PushNodes(fr, [i \in 1..(len + 2 - Len(fr)) |-> NewNode(owner, Len(fr) + i - 1)])
    ELSE fr

\* FST::set_empty_output
SetEmptyOutput(old, v) == IF old.some THEN Some(OutMerge(old.val, v)) ELSE Some(v)

\* add, "init tail states for current input"
RECURSIVE InitTailFrom(_, _, _)
InitTailFrom(b, input, i) ==
    IF b.err # "" \/ i > Len(input) THEN b
    ELSE IF ~AddArcOk(b.frontier[i], input[i]) THEN Fail(b, "panic: add_arc")
    ELSE IF ~OwnerLive(b, b.frontier[i]) THEN Fail(b, "ub: stale owner")
    ELSE InitTailFrom(
             [b EXCEPT !.frontier[i] = AddArc(@, input[i], UnCompiled(i)),
                       !.frontier[i + 1].input_count = @ + 1],
             input, i + 1)

\* add, "push conflicting outputs forward, only as far as needed"
RECURSIVE PushFrom(_, _, _, _, _)
PushFrom(b, input, output, i, prefix_len_plus1) ==
    IF b.err # "" \/ i >= prefix_len_plus1 THEN [b |-> b, output |-> output]
    ELSE IF ~LastMatches(b.frontier[i], input[i])
    THEN [b |-> Fail(b, "panic: get_last_output"), output |-> output]
    ELSE IF /\ GetLastOutput(b.frontier[i]) # NoOutput
            /\ PrependDerefs(b.frontier[i + 1])
            /\ ~OwnerLive(b, b.frontier[i + 1])
    THEN [b |-> Fail(b, "ub: stale owner"), output |-> output]
    ELSE LET last_output == GetLastOutput(b.frontier[i])
             common_output_prefix ==
                 IF last_output # NoOutput THEN OutCommon(output, last_output)
                 ELSE NoOutput
             word_suffix == OutSubtract(last_output, common_output_prefix)
             b1 == IF last_output # NoOutput
                   THEN [b EXCEPT !.frontier[i + 1] = PrependOutput(@, word_suffix),
                                  !.frontier[i] = SetLastOutput(@, common_output_prefix)]
                   ELSE b
         IN PushFrom(b1, input, OutSubtract(output, common_output_prefix), i + 1,
                     prefix_len_plus1)

\* mutant of the prefix count: the root left out
CountPrefixBelowRoot(b, prefix_len_plus1) ==
    [b EXCEPT !.frontier =
        [i \in 1..Len(@) |->
           IF i <= prefix_len_plus1 /\ i > 1 THEN [@[i] EXCEPT !.input_count = @ + 1]
           ELSE @[i]]]

\* mutant of the prefix count: the last shared node left out
CountPrefixShort(b, prefix_len_plus1) ==
    [b EXCEPT !.frontier =
        [i \in 1..Len(@) |->
           IF i < prefix_len_plus1 THEN [@[i] EXCEPT !.input_count = @ + 1]
           ELSE @[i]]]

\* add, "add 1 to the count of each node in the shared prefix"
CountPrefix(b, prefix_len_plus1) ==
    [b EXCEPT !.frontier =
        [i \in 1..Len(@) |->
           IF i <= prefix_len_plus1 THEN [@[i] EXCEPT !.input_count = @ + 1]
           ELSE @[i]]]

\* add, "same input more than 1 time in a row"
SameInput(b, input, prefix_len_plus1) ==
    Len(b.last_input) = Len(input) /\ prefix_len_plus1 = Len(input) + 1

\* add, the last node of a new input is final with an empty output
MarkLeaf(b, input, prefix_len_plus1) ==
    IF b.err # "" \/ SameInput(b, input, prefix_len_plus1) THEN b
    ELSE [b EXCEPT !.frontier[Len(input) + 1].is_final = TRUE,
                   !.frontier[Len(input) + 1].output = NoOutput]

\* mutant of the end of add: the previous key kept when the new key is longer
AddPushedKeepingLast(pushed, input, prefix_len_plus1) ==
    IF pushed.b.err # "" THEN pushed.b
    ELSE IF SameInput(pushed.b, input, prefix_len_plus1)
    THEN [pushed.b EXCEPT !.frontier[Len(input) + 1].output = OutMerge(@, pushed.output),
                          !.last_input = input]
    ELSE IF prefix_len_plus1 > Len(input)
    THEN Fail(pushed.b, "panic: index out of bounds")
    ELSE IF ~LastMatches(pushed.b.frontier[prefix_len_plus1], input[prefix_len_plus1])
    THEN Fail(pushed.b, "panic: set_last_output")
    ELSE [pushed.b EXCEPT !.frontier[prefix_len_plus1] = SetLastOutput(@, pushed.output),
                          !.last_input = IF Len(@) > 0 /\ Len(input) > Len(@)
                                         THEN @ ELSE input]

\* add after the outputs were pushed: the leftover goes to the leaf of a
\* repeated input, or to the first arc that differs
AddPushed(pushed, input, prefix_len_plus1) ==
    IF pushed.b.err # "" THEN pushed.b
    ELSE IF SameInput(pushed.b, input, prefix_len_plus1)
    THEN [pushed.b EXCEPT !.frontier[Len(input) + 1].output = OutMerge(@, pushed.output),
                          !.last_input = input]
    ELSE IF prefix_len_plus1 > Len(input)
    THEN Fail(pushed.b, "panic: index out of bounds")
    ELSE IF ~LastMatches(pushed.b.frontier[prefix_len_plus1], input[prefix_len_plus1])
    THEN Fail(pushed.b, "panic: set_last_output")
    ELSE [pushed.b EXCEPT !.frontier[prefix_len_plus1] = SetLastOutput(@, pushed.output),
                          !.last_input = input]

\* add of a non-empty input that shares prefix_len_plus1 - 1 labels with the
\* previous one
AddShared(b, input, output0, prefix_len_plus1) ==
    AddPushed(
        PushFrom(
            MarkLeaf(
                InitTailFrom(FreezeTail(CountPrefix(b, prefix_len_plus1),
                                        prefix_len_plus1),
                             input, prefix_len_plus1),
                input, prefix_len_plus1),
            input, output0, 1, prefix_len_plus1),
        input, prefix_len_plus1)

\* mutant of add: the empty input treated like any other
AddGrownNoSpecialCase(b, input, output0) ==
    AddShared(b, input, output0, SharedPrefix(b.last_input, input) + 1)

\* add once the frontier is long enough
AddGrown(b, input, output0) ==
    IF Len(input) = 0
    THEN [b EXCEPT !.frontier[1].input_count = @ + 1,
                   !.frontier[1].is_final = TRUE,
                   !.empty_output = SetEmptyOutput(@, output0)]
    ELSE AddShared(b, input, output0, SharedPrefix(b.last_input, input) + 1)

\* the body of add after the ordering assertion
AddImpl(b0, input, output0) ==
    AddGrown([b0 EXCEPT !.frontier = GrowFrontier(@, Len(input), b0.place)],
             input, output0)

\* mutant of the root test: a root without arcs makes the cut
RootLowIgnoringArcs(root) ==
    \/ root.input_count < cfg.min_suffix_count1
    \/ root.input_count < cfg.min_suffix_count2

\* finish: the root does not make the cut
RootLow(root) ==
    \/ root.input_count < cfg.min_suffix_count1
    \/ root.input_count < cfg.min_suffix_count2
    \/ root.num_arcs = 0

\* finish: the two early returns of Ok(None)
NothingAccepted(root, empty) ==
    /\ RootLow(root)
    /\ \/ ~empty.some
       \/ cfg.min_suffix_count1 > 0
       \/ cfg.min_suffix_count2 > 0

\* finish, the root compiled: r is what compile_node returned
FinishCompiled(r) ==
    [b |-> [r.b EXCEPT !.frontier[1] = r.node],
     result |-> IF r.b.err # "" THEN "pending" ELSE "fst",
     start |-> IF r.b.err # "" THEN 0 ELSE r.addr]

\* finish, the root kept: c is the root with its targets compiled when
\* min_suffix_count2 is set
FinishKept(c, tail_length) ==
    IF c.b.err # ""
    THEN [b |-> [c.b EXCEPT !.frontier[1] = c.node], result |-> "pending", start |-> 0]
    ELSE FinishCompiled(CompileNode(c.b, c.node, tail_length))

\* finish after freeze_tail(0)
FinishFrozen(b) ==
    IF b.err # "" THEN [b |-> b, result |-> "pending", start |-> 0]
    ELSE IF Len(b.frontier) = 0
    THEN [b |-> Fail(b, "panic: index out of bounds"), result |-> "pending", start |-> 0]
    ELSE IF NothingAccepted(b.frontier[1], b.empty_output)
    THEN [b |-> b, result |-> "none", start |-> 0]
    ELSE FinishKept(IF ~RootLow(b.frontier[1]) /\ cfg.min_suffix_count2 # 0
                    THEN CompileAllTargets(b, b.frontier[1], Len(b.last_input))
                    ELSE [b |-> b, node |-> b.frontier[1]],
                    Len(b.last_input))

\* finish: the builder afterwards, what is returned and the start address
FinishImpl(b0) == FinishFrozen(FreezeTail(b0, 0))

----------------------------------------------------------------------------
(* The state machine *)

MaxCount1 == 2
MaxCount2 == 3
\* min_suffix_count2: off, the single-occurrence rule, and a plain threshold
Count2Values == {0, 1, MaxCount2}
ShareTails == {1, MaxTail}

MaxInits == 2
MaxMoves == 1

\* Every parameter set is built twice: by a build that checks arithmetic over
\* a store of fixed arrays, and by one that does not over a store of linear
\* nodes (HashConfigs has the four combinations)
Configs ==
    {c \in [min_suffix_count1 : 0..MaxCount1, min_suffix_count2 : Count2Values,
            do_share_suffix : BOOLEAN, do_share_non_singleton_nodes : BOOLEAN,
            share_max_tail_length : ShareTails, overflow_checks : BOOLEAN,
            fixed_array : BOOLEAN] :
       /\ c.fixed_array = c.overflow_checks
       /\ ~c.do_share_suffix =>
              (c.do_share_non_singleton_nodes /\ c.share_max_tail_length = MaxTail)}

StatusOf(e) ==
    IF e = "" THEN "building"
    ELSE IF SubSeq(e, 1, 2) = "ub" THEN "ub"
    ELSE IF SubSeq(e, 1, 5) = "error" THEN "failed"
    ELSE "panicked"

\* FstBuilder::build with the parameters c: no dedup table yet and an empty
\* frontier
Built(c) ==
    /\ cfg = c
    /\ place = 0
    /\ inits = 0
    /\ frontier = <<>>
    /\ last_input = <<>>
    /\ nodes = <<>>
    /\ empty_output = None
    /\ dedup_hash = NoNodeHash
    /\ last_frozen_node = 0
    /\ status = "building"
    /\ err = ""
    /\ result = "pending"
    /\ start_node = 0
    /\ added = <<>>
    /\ call = [op |-> "build", key |-> <<>>, io |-> FALSE]

Init == \E c \in Configs : Built(c)

\* init: a new dedup table when suffixes are shared, and FrontierInit more
\* nodes of depth 0, 1, ... at the end of the frontier
InitCall ==
    /\ status = "building"
    /\ inits < MaxInits
    /\ inits' = inits + 1
    /\ dedup_hash' = IF cfg.do_share_suffix THEN NewNodeHash(place) ELSE dedup_hash
    /\ frontier' = PushNodes(frontier, [i \in 1..FrontierInit |-> NewNode(place, i - 1)])
    /\ call' = [op |-> "init", key |-> <<>>, io |-> FALSE]
    /\ UNCHANGED <<cfg, place, last_input, nodes, empty_output, last_frozen_node,
                   status, err, result, start_node, added>>

\* the builder value is moved (returned from a function, boxed, pushed into
\* a collection): its fields keep their values, owner and fst pointers made
\* before keep pointing at the old place
Move ==
    /\ status = "building"
    /\ place < MaxMoves
    /\ place' = place + 1
    /\ call' = [op |-> "move", key |-> <<>>, io |-> FALSE]
    /\ UNCHANGED <<cfg, inits, frontier, last_input, nodes, empty_output, dedup_hash,
                   last_frozen_node, status, err, result, start_node, added>>

Install(b) ==
    /\ frontier' = b.frontier
    /\ last_input' = b.last_input
    /\ nodes' = b.nodes
    /\ empty_output' = b.empty_output
    /\ dedup_hash' = b.dedup
    /\ last_frozen_node' = b.last_frozen_node
    /\ err' = b.err

\* the builder after add: Ok(()) when nothing stopped the call
AddReturns(b, input, output) ==
    /\ Install(b)
    /\ status' = StatusOf(b.err)
    /\ added' = IF b.err = "" THEN Append(added, <<input, output>>) ELSE added

\* add(input, output) when the ordering assertion holds
Add(input, output) ==
    /\ status = "building"
    /\ Len(added) < MaxAdds
    /\ InputOrderOk(last_input, input)
    /\ AddReturns(AddImpl(Builder, input, output), input, output)
    /\ call' = [op |-> "add", key |-> input, io |-> FALSE]
    /\ UNCHANGED <<cfg, place, inits, result, start_node>>

\* add(input, output) when the ordering assertion fails
AddOutOfOrder(input, output) ==
    /\ status = "building"
    /\ Len(added) < MaxAdds
    /\ ~InputOrderOk(last_input, input)
    /\ status' = "panicked"
    /\ err' = "panic: input order"
    /\ call' = [op |-> "add", key |-> input, io |-> FALSE]
    /\ UNCHANGED <<cfg, place, inits, frontier, last_input, nodes, empty_output,
                   dedup_hash, last_frozen_node, result, start_node, added>>

\* the builder after finish, what it returned and the start address
FinishReturns(f) ==
    /\ Install(f.b)
    /\ status' = IF f.b.err = "" THEN "finished" ELSE StatusOf(f.b.err)
    /\ result' = f.result
    /\ start_node' = f.start

Finish ==
    /\ status = "building"
    /\ FinishReturns(FinishImpl(Builder))
    /\ call' = [op |-> "finish", key |-> <<>>, io |-> FALSE]
    /\ UNCHANGED <<cfg, place, inits, added>>

\* The documented use: the builder is made and init is called once, where it
\* stays; then add is called for each key and finish ends the build
Constructed == inits = 1 /\ place = 0

Construct == inits = 0 /\ place = 0 /\ InitCall

Next ==
    \/ Construct
    \/ Constructed /\ \E input \in Keys, output \in Outputs : Add(input, output)
    \/ Constructed /\ \E input \in Keys, output \in Outputs : AddOutOfOrder(input, output)
    \/ Constructed /\ Finish

Spec == Init /\ [][Next]_vars

\* Every order of calls the interface allows: add and finish before init, a
\* second init, and a builder that is moved between calls
LifecycleKeys == {<<>>, <<1>>, <<1, 1>>, <<1, 2>>, <<2>>}
LifecycleOutputs == {NoOutput, 1}

\* without the first pruning rule; the second one off or at its
\* single-occurrence setting
LifecycleConfigs ==
    {c \in Configs : c.min_suffix_count1 = 0 /\ c.min_suffix_count2 \in {0, 1}}

InitLifecycle == \E c \in LifecycleConfigs : Built(c)

NextLifecycle ==
    \/ InitCall
    \/ Move
    \/ \E input \in LifecycleKeys, output \in LifecycleOutputs : Add(input, output)
    \/ \E input \in LifecycleKeys, output \in LifecycleOutputs : AddOutOfOrder(input, output)
    \/ Finish

SpecLifecycle == InitLifecycle /\ [][NextLifecycle]_vars

\* The scenario of three keys: "car" -> 2, "cat" -> 1, "dog" -> 3, the labels
\* being the bytes of the words
ScenarioKeys == <<<<99, 97, 114>>, <<99, 97, 116>>, <<100, 111, 103>>>>
ScenarioOutputs == <<2, 1, 3>>

NextScenario ==
    \/ Construct
    \/ Constructed /\ \E i \in 1..Len(ScenarioKeys) : Add(ScenarioKeys[i], ScenarioOutputs[i])
    \/ Constructed /\ \E i \in 1..Len(ScenarioKeys) :
                          AddOutOfOrder(ScenarioKeys[i], ScenarioOutputs[i])
    \/ Constructed /\ Finish

SpecScenario == Init /\ [][NextScenario]_vars

\* A store that refuses a write: the write after k successful ones of the call
MaxWrites == 1

\* add(input, output) during which fst.add_node returns an error
AddStoreFails(input, output, k) ==
    /\ status = "building"
    /\ Len(added) < MaxAdds
    /\ InputOrderOk(last_input, input)
    /\ AddImpl([Builder EXCEPT !.io_left = k], input, output).io_failed
    /\ AddReturns(AddImpl([Builder EXCEPT !.io_left = k], input, output), input, output)
    /\ call' = [op |-> "add", key |-> input, io |-> TRUE]
    /\ UNCHANGED <<cfg, place, inits, result, start_node>>

\* finish during which fst.add_node returns an error
FinishStoreFails(k) ==
    /\ status = "building"
    /\ FinishImpl([Builder EXCEPT !.io_left = k]).b.io_failed
    /\ FinishReturns(FinishImpl([Builder EXCEPT !.io_left = k]))
    /\ call' = [op |-> "finish", key |-> <<>>, io |-> TRUE]
    /\ UNCHANGED <<cfg, place, inits, added>>

NextStoreFails ==
    \/ Construct
    \/ Constructed /\ \E input \in Keys, output \in Outputs : Add(input, output)
    \/ Constructed /\ \E input \in Keys, output \in Outputs : AddOutOfOrder(input, output)
    \/ Constructed /\ Finish
    \/ Constructed /\ \E input \in Keys, output \in Outputs, k \in 0..MaxWrites :
                          AddStoreFails(input, output, k)
    \/ Constructed /\ \E k \in 0..MaxWrites : FinishStoreFails(k)

SpecStoreFails == Init /\ [][NextStoreFails]_vars

\* The dedup table on its own: compile_node handing one-arc nodes to
\* NodeHash::add, as a build with many keys does, until the table has grown
\* twice
MaxEntries == 23

HashConfigs ==
    {[min_suffix_count1 |-> 0, min_suffix_count2 |-> 0, do_share_suffix |-> TRUE,
      do_share_non_singleton_nodes |-> TRUE, share_max_tail_length |-> MaxTail,
      overflow_checks |-> checks, fixed_array |-> array] :
        checks \in BOOLEAN, array \in BOOLEAN}

\* a pending node with one final arc
OneArcNode(label, output, target) ==
    [NewNode(0, 1) EXCEPT
       !.num_arcs = 1,
       !.input_count = 1,
       !.arcs = <<[label |-> label, target |-> Compiled(target), is_final |-> TRUE,
                   output |-> output, next_final_output |-> output]>>]

\* the last node of a key (an arc without outputs to the final end node) and
\* nodes above it, whose arc carries an output and a final output and leads
\* to the first frozen node
HashCandidates ==
    {OneArcNode(1, NoOutput, FINAL_END_NODE)}
        \cup {OneArcNode(l, MaxOutput, 1) : l \in Labels}

InitNodeHash == \E c \in HashConfigs : Built(c)

CompileReturns(b) ==
    /\ Install(b)
    /\ status' = StatusOf(b.err)

\* compile_node(node, 1) with the dedup table in place
HashAdd(node) ==
    /\ status = "building"
    /\ dedup_hash.count < MaxEntries
    /\ node.arcs[1].target.ref <= Len(nodes)
    /\ CompileReturns(CompileNode(Builder, node, 1).b)
    /\ call' = [op |-> "compile_node", key |-> <<node.arcs[1].label>>, io |-> FALSE]
    /\ UNCHANGED <<cfg, place, inits, result, start_node, added>>

NextNodeHash ==
    \/ Construct
    \/ Constructed /\ \E node \in HashCandidates : HashAdd(node)

SpecNodeHash == InitNodeHash /\ [][NextNodeHash]_vars

\* The hash of a node with many arcs: labels of one-label keys; the sum for
\* the root holding all of them passes 2^64 at its last arc
OverflowLabels ==
    <<1, 2, 345176519, 843950113, 1012985724, 1015100369, 2147483647>>

\* add(<<label>>, no output) for one of these labels
AddLabel(i) ==
    /\ status = "building"
    /\ InputOrderOk(last_input, <<OverflowLabels[i]>>)
    /\ AddReturns(AddImpl(Builder, <<OverflowLabels[i]>>, NoOutput),
                  <<OverflowLabels[i]>>, NoOutput)
    /\ call' = [op |-> "add", key |-> <<OverflowLabels[i]>>, io |-> FALSE]
    /\ UNCHANGED <<cfg, place, inits, result, start_node>>

NextHashOverflow ==
    \/ Construct
    \/ Constructed /\ \E i \in 1..Len(OverflowLabels) : AddLabel(i)
    \/ Constructed /\ Finish

SpecHashOverflow == InitNodeHash /\ [][NextHashOverflow]_vars

----------------------------------------------------------------------------
(* Reading the compiled automaton: descent from the start address *)

KeysOf(h) == {h[i][1] : i \in 1..Len(h)}

IsPrefix(s, key) == Len(s) <= Len(key) /\ SubSeq(key, 1, Len(s)) = s

\* number of added keys whose path runs through the node reached by s
Traversals(s) == Cardinality({i \in 1..Len(added) : IsPrefix(s, added[i][1])})

ArcsAt(a) == IF a >= 1 /\ a <= Len(nodes) THEN nodes[a] ELSE <<>>

\* follows key from address a; found says whether the whole key was consumed,
\* final whether its last arc is final, out the outputs collected on the way
RECURSIVE Descend(_, _, _, _)
Descend(a, key, i, acc) ==
    LET arcs == ArcsAt(a)
        hit == {j \in 1..Len(arcs) : arcs[j].label = key[i]}
    IN IF hit = {} THEN [found |-> FALSE, final |-> FALSE, out |-> acc]
       ELSE LET arc == arcs[CHOOSE j \in hit : TRUE]
            IN IF i = Len(key)
               THEN [found |-> TRUE, final |-> arc.is_final,
                     out |-> OutAdd(OutAdd(acc, arc.output), arc.next_final_output)]
               ELSE Descend(arc.target, key, i + 1, OutAdd(acc, arc.output))

Lookup(key) ==
    IF result = "fst" /\ Len(key) > 0 THEN Descend(start_node, key, 1, NoOutput)
    ELSE [found |-> FALSE, final |-> FALSE, out |-> NoOutput]

Accepts(key) == Lookup(key).found /\ Lookup(key).final

Probes == UNION {[1..n -> Labels] : n \in 1..(MaxLen + 1)}

NoPruning == cfg.min_suffix_count1 = 0 /\ cfg.min_suffix_count2 = 0

NonEmptyKeysOnly == \A i \in 1..Len(added) : Len(added[i][1]) > 0

\* the only panic a caller who keeps the contract never sees
OnlyOrderPanics == status \in {"panicked", "ub"} => err = "panic: input order"

BuilderFields ==
    <<frontier, last_input, nodes, empty_output, dedup_hash, last_frozen_node>>

----------------------------------------------------------------------------
(* Claims *)

\* C1: with pruning disabled, a build of strictly increasing non-empty keys
\* goes through, and after finish the compiled automaton accepts exactly the
\* added keys.
C1_AcceptsExactlyAdded ==
    (NoPruning /\ NonEmptyKeysOnly) =>
        /\ OnlyOrderPanics
        /\ status = "finished" =>
               {s \in Probes : Accepts(s)} = KeysOf(added)

\* C1, what does hold: every automaton that finish returns accepts exactly
\* the added keys.
C1_ReturnedAutomatonExact ==
    (NoPruning /\ NonEmptyKeysOnly /\ status = "finished") =>
        {s \in Probes : Accepts(s)} = KeysOf(added)

\* C2: with pruning disabled, a build of strictly increasing keys goes
\* through, and after finish the outputs along each added key's path, with the
\* final output of its last arc, add up to the output supplied with the key.
C2_PathOutputIsSupplied ==
    NoPruning =>
        /\ OnlyOrderPanics
        /\ status = "finished" =>
               \A i \in 1..Len(added) :
                   Len(added[i][1]) > 0 =>
                       /\ Lookup(added[i][1]).found
                       /\ Lookup(added[i][1]).out = added[i][2]

\* C2, what does hold: in every automaton that finish returns, each added
\* key's path carries the supplied output.
C2_ReturnedOutputs ==
    (NoPruning /\ status = "finished") =>
        \A i \in 1..Len(added) :
            Len(added[i][1]) > 0 =>
                /\ Lookup(added[i][1]).found
                /\ Lookup(added[i][1]).out = added[i][2]

\* C3: when the previous key is non-empty, an add whose key is not strictly
\* greater fails the ordering assertion with the builder untouched.
C3_OutOfOrderRejectedUntouched ==
    [][(/\ status = "building"
        /\ call'.op = "add"
        /\ Len(last_input) > 0
        /\ ~LexLess(last_input, call'.key))
       => (/\ status' = "panicked"
           /\ err' = "panic: input order"
           /\ UNCHANGED BuilderFields
           /\ UNCHANGED added)]_vars

C3_Witness ==
    /\ status = "panicked"
    /\ err = "panic: input order"
    /\ Len(last_input) > 0
    /\ call.key = last_input
    /\ nodes # <<>>

\* C4 as stated: an add of the empty key that is not the first call of the
\* build is rejected by the ordering assertion.
C4_EmptyKeyOnlyFirst ==
    [][(/\ status = "building"
        /\ call.op # "init"
        /\ call'.op = "add"
        /\ call'.key = <<>>)
       => (status' = "panicked" /\ err' = "panic: input order")]_vars

\* C4 amended: an add of the empty key is rejected by the ordering assertion
\* exactly when a non-empty key has been added before; repeated adds of the
\* empty key ahead of every non-empty key are accepted.
C4_EmptyKeyBeforeNonEmpty ==
    [][(/\ status = "building"
        /\ call'.op = "add"
        /\ call'.key = <<>>)
       => ((status' = "panicked" /\ err' = "panic: input order")
              <=> (\E i \in 1..Len(added) : Len(added[i][1]) > 0))]_vars

C4_Witness ==
    /\ Len(added) >= 2
    /\ added[1][1] = <<>>
    /\ added[2][1] = <<>>
    /\ status = "building"

\* C5: adding the same key twice in a row is accepted by add.
C5_DuplicateKeyAccepted ==
    [][(/\ status = "building"
        /\ call'.op = "add"
        /\ Len(last_input) > 0
        /\ call'.key = last_input)
       => status' # "panicked"]_vars

\* C6: no two addresses that went through the dedup table hold the same arc
\* list.
C6_SharedNodesUnique ==
    \A i, j \in 1..Len(dedup_hash.table) :
        (/\ i # j
         /\ dedup_hash.table[i] # 0
         /\ dedup_hash.table[j] # 0)
        => nodes[dedup_hash.table[i]] # nodes[dedup_hash.table[j]]

\* C7: with min_suffix_count2 = 0, no path of the automaton that finish
\* returns leads through a node that fewer than min_suffix_count1 of the added
\* keys traversed.
C7_PrunedPathsAbsent ==
    (status = "finished" /\ result = "fst" /\ cfg.min_suffix_count2 = 0) =>
        \A s \in Probes :
            Lookup(s).found => Traversals(s) >= cfg.min_suffix_count1

C7_Witness ==
    /\ status = "finished"
    /\ result = "fst"
    /\ cfg.min_suffix_count2 = 0
    /\ cfg.min_suffix_count1 = 2
    /\ \E i \in 1..Len(added) : ~Lookup(added[i][1]).found
    /\ \E s \in Probes : Lookup(s).found

\* C8: finish as the first call of a build returns none without writing a
\* node.
C8_FinishOnFreshBuilder ==
    (call.op = "finish" /\ added = <<>>) =>
        /\ status = "finished"
        /\ result = "none"
        /\ err = ""
        /\ nodes = <<>>

C8_Witness ==
    /\ call.op = "finish"
    /\ added = <<>>
    /\ result = "none"
    /\ cfg.do_share_suffix

\* the none-condition of C9 as stated, on the builds that finish returns from:
\* none exactly when the root does not make the cut and no empty-key output
\* has been recorded
C9_NoneOnlyWithoutEmptyOutput ==
    [][(call'.op = "finish" /\ status' = "finished")
       => LET root == FreezeTail(Builder, 0).frontier[1]
          IN (result' = "none")
                 <=> /\ \/ root.input_count < cfg.min_suffix_count1
                        \/ root.input_count < cfg.min_suffix_count2
                        \/ root.num_arcs = 0
                     /\ ~empty_output.some]_vars

\* C9: when the root makes the cut (without pruning: it has an arc), finish
\* does not return none: it compiles the root, records the root's address as
\* the start address and returns an automaton.
C9_KeptRootReturnsAutomaton ==
    [][(call'.op = "finish" /\ NoPruning /\ frontier[1].num_arcs > 0)
       => /\ status' = "finished"
          /\ result' = "fst"
          /\ start_node' \in 1..Len(nodes')
          /\ nodes'[start_node'] = FrozenArcs(FreezeTail(Builder, 0).frontier[1])]_vars

\* the default configuration of FstBuilder::new: no pruning, every suffix shared
DefaultConfig ==
    /\ NoPruning
    /\ cfg.do_share_suffix
    /\ cfg.do_share_non_singleton_nodes
    /\ cfg.share_max_tail_length = MaxTail

ScenarioDone ==
    /\ call.op = "finish"
    /\ added = <<<<ScenarioKeys[1], 2>>, <<ScenarioKeys[2], 1>>, <<ScenarioKeys[3], 3>>>>

\* C11: "car" -> 2, "cat" -> 1, "dog" -> 3 added in that order under the
\* default configuration, then finish, yield an automaton whose root has the
\* two arcs c and d; c leads over a to one node with the arcs r and t, car
\* carrying 2 and cat 1; d leads over o and g, dog carrying 3; and no two
\* compiled nodes have the same arc list.
C11_CarCatDog ==
    (DefaultConfig /\ ScenarioDone) =>
        /\ status = "finished"
        /\ result = "fst"
        /\ LET root == ArcsAt(start_node)
           IN /\ Len(root) = 2
              /\ root[1].label = 99
              /\ root[2].label = 100
              /\ Len(ArcsAt(root[1].target)) = 1
              /\ ArcsAt(root[1].target)[1].label = 97
              /\ Len(ArcsAt(ArcsAt(root[1].target)[1].target)) = 2
              /\ Len(ArcsAt(root[2].target)) = 1
              /\ Len(ArcsAt(ArcsAt(root[2].target)[1].target)) = 1
        /\ \A i \in 1..3 :
               /\ Accepts(ScenarioKeys[i])
               /\ Lookup(ScenarioKeys[i]).out = ScenarioOutputs[i]
        /\ \A i, j \in 1..Len(nodes) : i # j => nodes[i] # nodes[j]

\* C11 with the dedup table off: the same three keys do give the automaton
\* described, apart from the sharing.
C11_CarCatDogUnshared ==
    (NoPruning /\ ~cfg.do_share_suffix /\ ScenarioDone) =>
        /\ status = "finished"
        /\ result = "fst"
        /\ Len(ArcsAt(start_node)) = 2
        /\ \A i \in 1..3 :
               /\ Accepts(ScenarioKeys[i])
               /\ Lookup(ScenarioKeys[i]).out = ScenarioOutputs[i]

\* C12: when the store refuses a write during add or finish, the call returns
\* the error: it neither panics nor succeeds; add leaves the previous key and
\* the accepted keys as they were, finish returns no automaton.
C12_StoreFailureReturned ==
    [][call'.io
       => (/\ status' = "failed"
           /\ err' = "error: store write"
           /\ call'.op = "add" => (last_input' = last_input /\ added' = added)
           /\ call'.op = "finish" => result' = "pending")]_vars

C12_Witness ==
    /\ call.io
    /\ call.op = "add"
    /\ status = "failed"
    /\ Len(call.key) > 0
    /\ Len(last_input) > 0
    /\ call.key # last_input

\* the keys accepted so far that start with the first i labels of key
SharingPrefix(key, i) ==
    {j \in 1..Len(added) :
        Len(added[j][1]) >= i /\ SubSeq(added[j][1], 1, i) = SubSeq(key, 1, i)}

\* C13: after every successful add(key, _), for every depth i up to the length
\* of key, frontier[i].input_count is the number of keys added so far that
\* start with the first i labels of key.
C13_InputCountCountsPrefixes ==
    (call.op = "add" /\ status = "building") =>
        \A i \in 0..Len(call.key) :
            frontier[i + 1].input_count = Cardinality(SharingPrefix(call.key, i))

C13_Witness ==
    /\ call.op = "add"
    /\ status = "building"
    /\ Len(added) = 3
    /\ Len(call.key) = 2
    /\ frontier[1].input_count = 3
    /\ frontier[2].input_count = 2
    /\ frontier[3].input_count = 1

\* C14: the compiled automaton is acyclic: at every point of a build, every
\* target address on an arc of a compiled node is an end node or the address
\* of a node compiled strictly before the node holding the arc.
C14_TargetsCompiledBefore ==
    \A a \in 1..Len(nodes) :
        \A j \in 1..Len(nodes[a]) :
            /\ nodes[a][j].target >= FINAL_END_NODE
            /\ nodes[a][j].target < a

C14_Witness ==
    /\ status = "finished"
    /\ result = "fst"
    /\ Len(nodes) >= 3
    /\ start_node = Len(nodes)
    /\ \E j, k \in 1..Len(nodes[start_node]) :
           /\ nodes[start_node][j].target >= 1
           /\ nodes[start_node][k].target >= 1
           /\ nodes[start_node][j].target # nodes[start_node][k].target

\* C15: after a successful add(key, _) with a non-empty key the recorded
\* previous key equals key label for label, and the next add is ordered
\* against exactly that key.
C15_LastInputIsKey ==
    [][(call'.op = "add" /\ status' = "building" /\ Len(call'.key) > 0)
       => (/\ last_input' = call'.key
           /\ \A k \in Keys : InputOrderOk(last_input', k) <=> LexLess(call'.key, k))]_vars

C15_Witness ==
    /\ call.op = "add"
    /\ status = "building"
    /\ Len(added) >= 2
    /\ Len(call.key) = 2
    /\ last_input = call.key
    /\ Len(added[Len(added) - 1][1]) = 1

\* what the freeze_tail of add(key, _) deals with, from the state before the call
FrozenByAdd(key) ==
    FreezeTail(CountPrefix([Builder EXCEPT !.frontier = GrowFrontier(@, Len(key), place)],
                           SharedPrefix(last_input, key) + 1),
               SharedPrefix(last_input, key) + 1).froze

\* the depths previous_key.length down to p + 1, p being the shared prefix
DepthsBelowPrefix(f, key) ==
    /\ Len(f) = Len(last_input) - SharedPrefix(last_input, key)
    /\ \A n \in 1..Len(f) : f[n][1] = Len(last_input) - n + 1

PrefixNodesKept(key) ==
    \A d \in 0..SharedPrefix(last_input, key) :
        frontier'[d + 1].input_count = frontier[d + 1].input_count + 1

\* C16 as stated: an add whose key shares p labels with the previous key
\* compiles or prunes exactly the frontier nodes of depths p + 1 up to the
\* length of the previous key, deepest first, and leaves the nodes of depths
\* 0..p, the root among them, uncleared.
C16_AddFreezesOrphanedSuffix ==
    [][(call'.op = "add" /\ status' = "building" /\ Len(call'.key) > 0)
       => (/\ DepthsBelowPrefix(FrozenByAdd(call'.key), call'.key)
           /\ \A n \in 1..Len(FrozenByAdd(call'.key)) :
                  FrozenByAdd(call'.key)[n][2] \in {"compiled", "pruned"}
           /\ PrefixNodesKept(call'.key))]_vars

\* C16 amended: the add deals with exactly the frontier nodes of depths p + 1
\* up to the length of the previous key, deepest first; each is compiled or
\* pruned, except that with min_suffix_count2 # 0 the node of depth p + 1 that
\* is not pruned is neither: it is set aside undecided and its slot gets a
\* fresh node.  The nodes of depths 0..p are left uncleared.
C16_AddFreezesOrDefers ==
    [][(call'.op = "add" /\ status' = "building" /\ Len(call'.key) > 0)
       => (/\ DepthsBelowPrefix(FrozenByAdd(call'.key), call'.key)
           /\ \A n \in 1..Len(FrozenByAdd(call'.key)) :
                  \/ FrozenByAdd(call'.key)[n][2] \in {"compiled", "pruned"}
                  \/ /\ FrozenByAdd(call'.key)[n][2] = "deferred"
                     /\ cfg.min_suffix_count2 # 0
                     /\ FrozenByAdd(call'.key)[n][1] = SharedPrefix(last_input, call'.key) + 1
           /\ (cfg.min_suffix_count2 = 0 \/ Len(FrozenByAdd(call'.key)) = 0)
                  \/ FrozenByAdd(call'.key)[Len(FrozenByAdd(call'.key))][2]
                         \in {"deferred", "pruned"}
           /\ PrefixNodesKept(call'.key))]_vars

C16_Witness ==
    /\ call.op = "add"
    /\ status = "building"
    /\ cfg.min_suffix_count2 # 0
    /\ Len(added) = 2
    /\ Len(added[1][1]) = 2
    /\ call.key = <<2>>
    /\ \E j \in 1..frontier[1].num_arcs : frontier[1].arcs[j].target = UnCompiled(NullPtr)

\* a call that ran freeze_tail: finish, or an add of a non-empty key that
\* passed the ordering assertion
RanFreezeTail ==
    \/ call'.op = "finish"
    \/ call'.op = "add" /\ Len(call'.key) > 0 /\ err' # "panic: input order"

\* the boundary freeze_tail was called with, the builder it started from and
\* the history of its iterations
BoundaryOfCall ==
    IF call'.op = "add" THEN SharedPrefix(last_input, call'.key) + 1 ELSE 0

BuilderAtFreeze ==
    IF call'.op = "add"
    THEN CountPrefix([Builder EXCEPT !.frontier = GrowFrontier(@, Len(call'.key), place)],
                     BoundaryOfCall)
    ELSE Builder

FrozenByCall == FreezeTail(BuilderAtFreeze, BoundaryOfCall).froze

\* C17: freeze_tail prunes the node of depth idx exactly when its input_count
\* is below min_suffix_count1, or idx is above the boundary and the parent's
\* input_count is below min_suffix_count2 or (min_suffix_count2 = 1, the
\* parent's input_count is 1 and idx > 1).
C17_PrunedExactlyWhen ==
    [][RanFreezeTail =>
         \A n \in 1..Len(FrozenByCall) :
            LET idx == FrozenByCall[n][1]
                node == BuilderAtFreeze.frontier[idx + 1]
                parent == BuilderAtFreeze.frontier[idx]
            IN (FrozenByCall[n][2] = "pruned")
                 <=> \/ node.input_count < cfg.min_suffix_count1
                     \/ /\ idx > BoundaryOfCall
                        /\ \/ parent.input_count < cfg.min_suffix_count2
                           \/ /\ cfg.min_suffix_count2 = 1
                              /\ parent.input_count = 1
                              /\ idx > 1]_vars

C17_Witness ==
    /\ call.op = "add"
    /\ status = "building"
    /\ cfg.min_suffix_count1 = 0
    /\ cfg.min_suffix_count2 = 1
    /\ Len(added) = 2
    /\ added[1][1] = <<1, 1>>
    /\ call.key = <<2>>
    /\ nodes = <<>>
    /\ frontier[1].num_arcs = 2
    /\ frontier[1].arcs[1].target = UnCompiled(NullPtr)
    /\ frontier[2].num_arcs = 0

\* the node of depth idx falls below min_suffix_count2 when freeze_tail
\* reaches it
BelowCount2(idx) ==
    \/ BuilderAtFreeze.frontier[idx + 1].input_count < cfg.min_suffix_count2
    \/ /\ cfg.min_suffix_count2 = 1
       /\ BuilderAtFreeze.frontier[idx + 1].input_count = 1
       /\ idx > 1

\* C18: a node that freeze_tail does not prune but whose input_count is below
\* min_suffix_count2 (or min_suffix_count2 = 1, input_count = 1, idx > 1) has
\* its arcs dropped and is compiled as a node without arcs: at once, or, when
\* it is set aside, through the pending target left on the parent arc.
C18_DroppedNodeCompiledEmpty ==
    [][RanFreezeTail =>
         \A n \in 1..Len(FrozenByCall) :
            (FrozenByCall[n][2] # "pruned" /\ BelowCount2(FrozenByCall[n][1]))
               => \/ /\ FrozenByCall[n][2] = "compiled"
                     /\ FrozenByCall[n][3] \in {FINAL_END_NODE, NON_FINAL_END_NODE}
                  \/ /\ FrozenByCall[n][2] = "deferred"
                     /\ FrozenByCall[n][3] # NullPtr]_vars

\* C18, what does hold: such a node, when freeze_tail compiles it, is compiled
\* without arcs, as one of the two end nodes.
C18_CompiledAsEndNode ==
    [][RanFreezeTail =>
         \A n \in 1..Len(FrozenByCall) :
            (FrozenByCall[n][2] = "compiled" /\ BelowCount2(FrozenByCall[n][1]))
               => FrozenByCall[n][3] \in {FINAL_END_NODE, NON_FINAL_END_NODE}]_vars

\* C19: a node that freeze_tail sets aside undecided stays live: as long as
\* the build goes on, every pending target on a live arc of the frontier
\* refers to a node, through which the node set aside can be reached.
C19_DeferredNodeReachable ==
    status = "building" =>
        \A d \in 1..Len(frontier) :
            \A j \in 1..frontier[d].num_arcs :
                frontier[d].arcs[j].target.kind = "UnCompiled"
                    => frontier[d].arcs[j].target.ref # NullPtr

\* C20: whenever the drop-all-arcs step of freeze_tail or compile_all_targets
\* follows a pending target, the target refers to a live pending node, in
\* every configuration.
C20_PendingTargetFollowedIsLive ==
    [][call'.op \in {"add", "finish"} => err' # "ub: null pending target"]_vars

\* C20, what does hold: with min_suffix_count2 = 0 no pending target is ever
\* followed to a null reference.
C20_LiveWithoutCount2 ==
    [][(call'.op \in {"add", "finish"} /\ cfg.min_suffix_count2 = 0)
       => err' # "ub: null pending target"]_vars

\* C21: after finish, every arc of the compiled automaton whose target has no
\* outgoing arcs (one of the two end nodes) is final, in every configuration.
C21_DeadEndArcsFinal ==
    (status = "finished" /\ result = "fst") =>
        \A a \in 1..Len(nodes) :
            \A j \in 1..Len(nodes[a]) :
                nodes[a][j].target \in {FINAL_END_NODE, NON_FINAL_END_NODE}
                    => nodes[a][j].is_final

C21_Witness ==
    /\ status = "finished"
    /\ result = "fst"
    /\ cfg.min_suffix_count1 > 0
    /\ \E j \in 1..Len(ArcsAt(start_node)) :
           /\ nodes[start_node][j].target = NON_FINAL_END_NODE
           /\ nodes[start_node][j].is_final
           /\ \E i \in 1..Len(added) :
                  /\ Len(added[i][1]) = 2
                  /\ added[i][1][1] = nodes[start_node][j].label

\* the builder when the iteration of freeze_tail for depth idx starts
BeforeFreezeStep(idx) ==
    FreezeFrom(BuilderAtFreeze, Len(last_input), idx + 1, BoundaryOfCall)

\* the parent of depth idx before and after that iteration
ParentAround(b, idx) ==
    <<b.frontier[idx], FreezeStep(b, idx, BoundaryOfCall).frontier[idx]>>

LastArcRemoved(pair, label) ==
    /\ pair[2].num_arcs = pair[1].num_arcs - 1
    /\ pair[1].arcs[pair[1].num_arcs].label = label
    /\ \A j \in 1..pair[2].num_arcs : pair[2].arcs[j] = pair[1].arcs[j]
    /\ pair[2].input_count = pair[1].input_count
    /\ pair[2].is_final = pair[1].is_final
    /\ pair[2].output = pair[1].output

\* C22: when freeze_tail prunes the node of depth idx, the parent loses its
\* last arc, whose label is previous_key[idx - 1], and nothing else: its other
\* arcs are as they were.
C22_PruneRemovesLastArcOnly ==
    [][RanFreezeTail =>
         \A n \in 1..Len(FrozenByCall) :
            FrozenByCall[n][2] = "pruned" =>
               \A b \in {BeforeFreezeStep(FrozenByCall[n][1])} :
                  \A pair \in {ParentAround(b, FrozenByCall[n][1])} :
                     LastArcRemoved(pair, last_input[FrozenByCall[n][1]])]_vars

C22_Witness ==
    /\ status = "finished"
    /\ result = "fst"
    /\ cfg.min_suffix_count1 = 2
    /\ cfg.min_suffix_count2 = 0
    /\ Len(ArcsAt(start_node)) = 1
    /\ nodes[start_node][1].label = 1
    /\ Len(added) = 3
    /\ added[Len(added)][1] = <<2>>

\* the builder and the node compile_node is given by the iteration of
\* freeze_tail for depth idx, b being the builder when the iteration starts
CompileInputDropped(b, idx, d) ==
    IF cfg.min_suffix_count2 # 0
    THEN CompileAllTargets(d.b, d.node, Len(b.last_input) - idx)
    ELSE d

CompileInput(b, idx) ==
    CompileInputDropped(b, idx,
        IF DoDropArcs(b.frontier[idx + 1], idx)
        THEN DropAllArcs([b EXCEPT !.frontier[idx + 1] = NewNode(b.place, 0),
                                   !.frontier[idx] = NewNode(b.place, 0)],
                         b.frontier[idx + 1])
        ELSE [b |-> [b EXCEPT !.frontier[idx + 1] = NewNode(b.place, 0),
                              !.frontier[idx] = NewNode(b.place, 0)],
              node |-> b.frontier[idx + 1]])

TableAddresses(d) == {d.table[i] : i \in 1..Len(d.table)} \ {0}

\* what compile_node leaves when the node went straight to the store
FrozenFresh(c, r) ==
    /\ r.b.dedup = c.b.dedup
    /\ IF c.node.num_arcs = 0
       THEN r.b.nodes = c.b.nodes /\ r.addr \in {FINAL_END_NODE, NON_FINAL_END_NODE}
       ELSE /\ r.b.nodes = Append(c.b.nodes, FrozenArcs(c.node))
            /\ r.addr = Len(r.b.nodes)

\* what compile_node leaves when the node went through the dedup table: an
\* address found there, or the node frozen and its address inserted
WentThroughTable(c, r) ==
    /\ c.node.num_arcs >= 1
    /\ \/ /\ r.b.nodes = c.b.nodes
          /\ r.b.dedup = c.b.dedup
          /\ r.addr \in TableAddresses(c.b.dedup)
       \/ /\ r.b.nodes = Append(c.b.nodes, FrozenArcs(c.node))
          /\ r.addr = Len(r.b.nodes)
          /\ r.b.dedup.count = c.b.dedup.count + 1
          /\ TableAddresses(r.b.dedup) = TableAddresses(c.b.dedup) \cup {r.addr}

ConsultCondition(node, tail_length) ==
    /\ cfg.do_share_suffix
    /\ inits > 0
    /\ (cfg.do_share_non_singleton_nodes \/ node.num_arcs <= 1)
    /\ tail_length <= cfg.share_max_tail_length
    /\ node.num_arcs >= 1

\* C23: compile_node goes through the dedup table exactly when the table
\* exists (do_share_suffix is set and init was called),
\* (do_share_non_singleton_nodes or the node has at most one arc),
\* tail_length <= share_max_tail_length and the node has at least one arc;
\* otherwise the node is frozen fresh and the table is left as it was.
\* Checked on every compile_node call of freeze_tail that returns.
C23_TableConsultedExactlyWhen ==
    [][RanFreezeTail =>
         \A n \in 1..Len(FrozenByCall) :
            FrozenByCall[n][2] = "compiled" =>
               \A c \in {CompileInput(BeforeFreezeStep(FrozenByCall[n][1]),
                                      FrozenByCall[n][1])} :
                  \A r \in {CompileNode(c.b, c.node,
                                         1 + Len(last_input) - FrozenByCall[n][1])} :
                     IF ConsultCondition(c.node, 1 + Len(last_input) - FrozenByCall[n][1])
                     THEN WentThroughTable(c, r) /\ ~FrozenFresh(c, r)
                     ELSE FrozenFresh(c, r) /\ ~WentThroughTable(c, r)]_vars

\* a node with one arc was frozen before init was called, when there was no
\* table yet; the root, compiled after init, went through the table
C23_Witness ==
    /\ status = "finished"
    /\ result = "fst"
    /\ cfg.do_share_suffix
    /\ cfg.do_share_non_singleton_nodes
    /\ cfg.min_suffix_count2 = 0
    /\ inits = 1
    /\ Len(nodes) = 2
    /\ Len(nodes[1]) = 1
    /\ TableAddresses(dedup_hash) = {2}

\* C24: the hash assertion of NodeHash::add never fails: the hash of the
\* pending node equals the hash of the node just frozen from it, whatever the
\* frontier slot held before.
C24_HashAssertionHolds == NoPruning => err # "panic: node hash"

\* a pending node whose live arcs are those of a frozen node
PendingOf(carcs) ==
    [NewNode(place, 0) EXCEPT
       !.num_arcs = Len(carcs),
       !.arcs = [i \in 1..Len(carcs) |->
                   [label |-> carcs[i].label, output |-> carcs[i].output,
                    next_final_output |-> carcs[i].next_final_output,
                    is_final |-> carcs[i].is_final,
                    target |-> Compiled(carcs[i].target)]]]

\* C25: the comparison of the dedup table finds a stored node equal to a
\* candidate whose live arcs are, field by field, the stored node's arcs.
C25_EqualNodeIsFound ==
    \A a \in TableAddresses(dedup_hash) :
        NodesEqual(Builder, PendingOf(nodes[a]), a) = "equal"

Capacities == {TableInit, 2 * TableInit, 4 * TableInit, 8 * TableInit}

\* C26: after every insertion the table holds at most two thirds of its
\* capacity in entries; the capacity starts at 16, stays or doubles at each
\* insertion and is a power of two, and mask = capacity - 1.
C26_TableTwoThirdsPowerOfTwo ==
    [][/\ dedup_hash'.present = (inits' > 0)
       /\ 3 * dedup_hash'.count <= 2 * Len(dedup_hash'.table)
       /\ Len(dedup_hash'.table) \in
              IF dedup_hash.present
              THEN {Len(dedup_hash.table), 2 * Len(dedup_hash.table)}
              ELSE {TableInit}
       /\ Len(dedup_hash'.table) \in Capacities
       /\ dedup_hash'.mask = Len(dedup_hash'.table) - 1
       /\ Cardinality(TableAddresses(dedup_hash')) = dedup_hash'.count]_vars

\* the table has grown twice
C26_Witness ==
    /\ Len(dedup_hash.table) = 4 * TableInit
    /\ dedup_hash.count = MaxEntries
    /\ status = "building"

\* C27: after the table was rehashed, a pending node whose live arcs are those
\* of a stored node is given that node's address, and the store does not grow.
C27_StoredNodeFoundAfterRehash ==
    Len(dedup_hash.table) > TableInit =>
        \A a \in TableAddresses(dedup_hash) :
            \A r \in {NodeHashAdd(Builder, PendingOf(nodes[a]))} :
                r.addr = a /\ r.b.nodes = nodes

\* rehash keeps the addresses and the count: what add leaves after growing is
\* what it had stored
C27_RehashKeepsAddresses ==
    [][Len(dedup_hash'.table) > Len(dedup_hash.table) =>
          /\ TableAddresses(dedup_hash') = TableAddresses(dedup_hash) \cup {Len(nodes')}
          /\ dedup_hash'.count = dedup_hash.count + 1
          /\ Cardinality(TableAddresses(dedup_hash')) = dedup_hash'.count]_vars

\* the stored nodes the comparison can recognise (every arc read back with
\* both outputs present) are found after the rehash
C27_NodeWithOutputsFoundAfterRehash ==
    Len(dedup_hash.table) > TableInit =>
        \A a \in TableAddresses(dedup_hash) :
            (\A j \in 1..Len(nodes[a]) :
                 nodes[a][j].output # NoOutput /\ nodes[a][j].next_final_output # NoOutput)
            => \A r \in {NodeHashAdd(Builder, PendingOf(nodes[a]))} :
                   r.addr = a /\ r.b.nodes = nodes

\* C28: the dedup table never stores address 0: every non-empty slot holds the
\* address of a frozen node with at least one arc, and there are as many
\* non-empty slots as insertions were counted.
C28_TableNeverStoresZero ==
    dedup_hash.present =>
        /\ \A i \in 1..Len(dedup_hash.table) :
               dedup_hash.table[i] # 0 =>
                   /\ dedup_hash.table[i] \in 1..Len(nodes)
                   /\ Len(nodes[dedup_hash.table[i]]) >= 1
        /\ Cardinality({i \in 1..Len(dedup_hash.table) : dedup_hash.table[i] # 0})
               = dedup_hash.count

\* nodes went through the table and dead ends were compiled beside them
C28_Witness ==
    /\ status = "finished"
    /\ result = "fst"
    /\ dedup_hash.count >= 2
    /\ \E a \in TableAddresses(dedup_hash) :
           \E j \in 1..Len(nodes[a]) : nodes[a][j].target = FINAL_END_NODE

Ascending(node) ==
    \A j \in 1..(node.num_arcs - 1) : node.arcs[j].label < node.arcs[j + 1].label

AllAscending(f) == \A d \in 1..Len(f) : Ascending(f[d])

\* C29: the live arcs of every pending node of the frontier have strictly
\* ascending labels after every add, every finish and every iteration of
\* freeze_tail, and the assertions of add_arc never fail for keys added in
\* strictly increasing order with positive labels.
C29_FrontierArcsAscending ==
    [][/\ AllAscending(frontier')
       /\ err' # "panic: add_arc"
       /\ RanFreezeTail =>
            \A n \in 1..Len(FrozenByCall) :
               \A b \in {FreezeFrom(BuilderAtFreeze, Len(last_input),
                                     FrozenByCall[n][1], BoundaryOfCall)} :
                  AllAscending(b.frontier)]_vars

\* a pending node got a second arc and a reused slot its first
C29_Witness ==
    /\ status = "building"
    /\ Len(last_input) = 2
    /\ frontier[1].num_arcs = 2
    /\ frontier[2].num_arcs = 1
    /\ Len(frontier[2].arcs) = 2
    /\ frontier[2].arcs[1].label < frontier[2].arcs[2].label

\* the path of key through the automaton under construction: pending nodes of
\* the frontier first, the compiled store from the first compiled target on
RECURSIVE PendingDescend(_, _, _, _)
PendingDescend(d, key, i, acc) ==
    LET node == frontier[d + 1]
        hit == {j \in 1..node.num_arcs : node.arcs[j].label = key[i]}
    IN IF hit = {} THEN [found |-> FALSE, final |-> FALSE, out |-> acc]
       ELSE LET arc == node.arcs[CHOOSE j \in hit : TRUE]
            IN IF arc.target.kind = "Compiled"
               THEN IF i = Len(key)
                    THEN [found |-> TRUE, final |-> arc.is_final,
                          out |-> OutAdd(OutAdd(acc, arc.output), arc.next_final_output)]
                    ELSE Descend(arc.target.ref, key, i + 1, OutAdd(acc, arc.output))
               ELSE IF arc.target.ref = NullPtr
               THEN [found |-> FALSE, final |-> FALSE, out |-> acc]
               ELSE IF i = Len(key)
               THEN [found |-> TRUE, final |-> frontier[arc.target.ref + 1].is_final,
                     out |-> OutAdd(OutAdd(acc, arc.output),
                                    frontier[arc.target.ref + 1].output)]
               ELSE PendingDescend(arc.target.ref, key, i + 1, OutAdd(acc, arc.output))

PendingLookup(key) ==
    IF Len(key) = 0
    THEN [found |-> TRUE, final |-> empty_output.some, out |-> empty_output.val]
    ELSE PendingDescend(0, key, 1, NoOutput)

\* C30: with pruning disabled, an add of a non-empty key that returns leaves
\* every key added before it accepted with the total output it had (the
\* outputs of the arcs along its path plus the final output), whether its
\* path stays in the frontier or leaves it through a compiled target.
C30_PushingKeepsTotals ==
    [][(status' = "building" /\ NoPruning /\ call'.op = "add" /\ Len(call'.key) > 0) =>
          \A i \in 1..Len(added) :
             /\ PendingLookup(added[i][1]).found
             /\ PendingLookup(added[i][1]).final
             /\ PendingLookup(added[i][1])'.found
             /\ PendingLookup(added[i][1])'.final
             /\ PendingLookup(added[i][1])'.out = PendingLookup(added[i][1]).out
             /\ Len(added[i][1]) > 0 => PendingLookup(added[i][1])'.out = added[i][2]]_vars

\* an output was pushed onto an arc whose target is compiled
C30_Witness ==
    /\ status = "building"
    /\ NoPruning
    /\ Len(added) = 2
    /\ added[1][2] > added[2][2]
    /\ frontier[2].num_arcs = 2
    /\ frontier[2].arcs[1].target.kind = "Compiled"
    /\ frontier[2].arcs[1].output = added[1][2] - added[2][2]

\* the outputs of the arcs of the current key's path above depth i
RECURSIVE SumAbove(_)
SumAbove(i) ==
    IF i <= 1 THEN NoOutput
    ELSE OutAdd(SumAbove(i - 1), GetLastOutput(frontier[i - 1]))

\* the keys added so far that pass through the arc of depth i of the current
\* key's path
KeysThrough(i) ==
    {k \in 1..Len(added) : IsPrefix(SubSeq(last_input, 1, i), added[k][1])}

\* the greatest common prefix of a set of outputs
CommonOf(S) == CHOOSE m \in S : \A x \in S : OutCommon(m, x) = m

\* C31: with pruning disabled, after every add the output of each arc of the
\* current key's frontier path is the common prefix of the remaining outputs
\* (supplied output minus the outputs of the arcs above) of all keys added so
\* far that pass through that arc.
C31_ArcOutputIsCommonPrefix ==
    (status = "building" /\ NoPruning) =>
        \A i \in 1..Len(last_input) :
            /\ LastMatches(frontier[i], last_input[i])
            /\ KeysThrough(i) # {}
            /\ GetLastOutput(frontier[i]) =
                   CommonOf({OutSubtract(added[k][2], SumAbove(i)) : k \in KeysThrough(i)})

\* three keys through the root arc, the smallest output added last
C31_Witness ==
    /\ status = "building"
    /\ NoPruning
    /\ Len(added) = 3
    /\ Len(last_input) = 2
    /\ Cardinality(KeysThrough(1)) = 3
    /\ added[1][2] = 2
    /\ added[3][2] = 1
    /\ GetLastOutput(frontier[1]) = 1
    /\ GetLastOutput(frontier[2]) = 0

\* C32: an add of the empty key that returns marks the root final, adds one to
\* the root's input_count, hands the output to the automaton's empty output
\* and changes nothing else: the root's arcs and output, every other frontier
\* slot, the previous key, the dedup table and the store are as before, and
\* the same keys are accepted afterwards as before.
C32_EmptyKeyTouchesRootOnly ==
    [][(call'.op = "add" /\ call'.key = <<>> /\ err' = "") =>
          /\ status' = "building"
          /\ frontier' = [frontier EXCEPT ![1].is_final = TRUE,
                                          ![1].input_count = @ + 1]
          /\ empty_output'.some
          /\ empty_output'.val =
                 IF empty_output.some
                 THEN OutMerge(empty_output.val, added'[Len(added')][2])
                 ELSE added'[Len(added')][2]
          /\ added'[Len(added')][1] = <<>>
          /\ last_input' = last_input
          /\ dedup_hash' = dedup_hash
          /\ nodes' = nodes
          /\ last_frozen_node' = last_frozen_node
          /\ \A input \in Keys :
                 InputOrderOk(last_input', input) = InputOrderOk(last_input, input)]_vars

\* the empty key was added, then a non-empty one
C32_Witness ==
    /\ status = "building"
    /\ Len(added) = 2
    /\ added[1][1] = <<>>
    /\ added[1][2] = MaxOutput
    /\ Len(added[2][1]) = MaxLen
    /\ empty_output = Some(MaxOutput)
    /\ frontier[1].is_final
    /\ frontier[1].input_count = 2

EmptyPending(node) ==
    /\ node.num_arcs = 0
    /\ ~node.is_final
    /\ node.input_count = 0
    /\ node.output = NoOutput

\* C33: after every add that returns, every frontier slot deeper than the
\* key just added is an empty pending node: no live arcs, not final,
\* input_count 0, empty output.
C33_SlotsBelowKeyEmpty ==
    (status = "building" /\ call.op = "add") =>
        \A d \in (Len(call.key) + 2)..Len(frontier) : EmptyPending(frontier[d])

\* a key of length 1 after a key of length 2 whose nodes had been counted
C33_Witness ==
    /\ status = "building"
    /\ call.op = "add"
    /\ Len(call.key) = 1
    /\ Len(added) = 3
    /\ Len(added[1][1]) = 2
    /\ Len(added[2][1]) = 2
    /\ added[1][1][1] = added[2][1][1]
    /\ Len(frontier[2].arcs) = 2
    /\ EmptyPending(frontier[3])

\* C34: between operations the depth of every frontier slot is its index
\* (slot i of the source is frontier[i + 1] here), whatever freeze_tail did
\* to the slot.
C34_DepthIsIndex ==
    status = "building" =>
        \A i \in 1..Len(frontier) : frontier[i].depth = i - 1

\* slots of depth 1 and 2 were frozen, one of them set aside and replaced
C34_Witness ==
    /\ status = "building"
    /\ cfg.min_suffix_count1 = 0
    /\ cfg.min_suffix_count2 = MaxCount2
    /\ Len(added) = 2
    /\ Len(added[1][1]) = 2
    /\ added[1][1][1] # added[2][1][1]
    /\ frontier[1].num_arcs = 2
    /\ frontier[1].arcs[1].target = UnCompiled(NullPtr)
    /\ frontier[2].depth = 1
    /\ frontier[3].depth = 2

\* the targets of a frontier after add(key): compiled everywhere, but for the
\* last arc of each node above the key's end, which leads to the next slot
PathShape(f, key) ==
    \A d \in 1..Len(f) :
        \A j \in 1..f[d].num_arcs :
            IF d <= Len(key) /\ j = f[d].num_arcs
            THEN f[d].arcs[j].target = UnCompiled(d)
            ELSE f[d].arcs[j].target.kind = "Compiled"

NeverDeferred(history) ==
    \A n \in 1..Len(history) : history[n][2] # "deferred"

\* C35: with min_suffix_count2 = 0 freeze_tail never sets a node aside: after
\* every add every live arc of the frontier has a compiled target, except the
\* last arc of each node above the end of the key, which leads to the next
\* slot; and after the freeze_tail of finish the root has compiled targets only.
C35_NoDeferralWithoutCount2 ==
    [][(cfg.min_suffix_count2 = 0 /\ err' = "") =>
          /\ RanFreezeTail => NeverDeferred(FrozenByCall)
          /\ call'.op = "add" => PathShape(frontier', last_input')
          /\ call'.op = "finish" =>
                \A b \in {FreezeTail(Builder, 0)} :
                    /\ b.err = ""
                    /\ AllTargetsCompiled(b.frontier[1])]_vars

\* a root with an arc to a frozen node and an arc to the pending path
C35_Witness ==
    /\ status = "building"
    /\ cfg.min_suffix_count2 = 0
    /\ cfg.min_suffix_count1 = 1
    /\ Len(added) = 3
    /\ Len(last_input) = 2
    /\ frontier[1].num_arcs = 2
    /\ frontier[1].arcs[1].target.kind = "Compiled"
    /\ frontier[1].arcs[1].target.ref >= 1
    /\ frontier[1].arcs[2].target = UnCompiled(1)
    /\ frontier[2].arcs[1].target = UnCompiled(2)

LabelMatchPanics ==
    {"panic: replace_last", "panic: delete_last", "panic: get_last_output",
     "panic: set_last_output"}

\* C36: for keys added in strictly increasing order with positive labels, in
\* every pruning configuration, the assertions of replace_last, delete_last,
\* get_last_output and set_last_output never fail: the node has a live arc
\* and its last live arc carries the expected label.
C36_LabelAssertionsHold == err \notin LabelMatchPanics

\* a node was pruned off its parent, another compiled onto it, and an output
\* was pushed along a shared arc
C36_Witness ==
    /\ status = "building"
    /\ cfg.min_suffix_count1 = 2
    /\ cfg.min_suffix_count2 = 0
    /\ Len(added) = 3
    /\ added[1][2] = 2
    /\ added[2][2] = 1
    /\ Len(added[1][1]) = 2
    /\ Len(added[2][1]) = 2
    /\ added[1][1][1] = added[2][1][1]
    /\ Len(last_input) = 2
    /\ frontier[1].num_arcs = 2
    /\ frontier[1].arcs[1].target.kind = "Compiled"
    /\ frontier[1].arcs[1].output = 1

\* the slots the probe loop looks at from pos on, in as many steps as the
\* table has slots
RECURSIVE ProbedSlots(_, _, _, _)
ProbedSlots(pos, c, mask, seen) ==
    IF c > mask THEN seen
    ELSE ProbedSlots(ProbeNext(pos, c, mask), c + 1, mask, seen \cup {pos})

\* C37: every lookup of the dedup table terminates: the table always has an
\* empty slot, and from every start position the probe sequence of add and
\* add_new visits every slot within capacity steps, so it comes to an empty
\* slot (or to an equal node before that).
C37_ProbeReachesEmptySlot ==
    dedup_hash.present =>
    /\ dedup_hash.count < Len(dedup_hash.table)
    /\ \E i \in 1..Len(dedup_hash.table) : dedup_hash.table[i] = 0
    /\ \A pos \in 0..dedup_hash.mask :
           \A slots \in {ProbedSlots(pos, 0, dedup_hash.mask, {})} :
               /\ slots = 0..dedup_hash.mask
               /\ \E q \in slots : dedup_hash.table[q + 1] = 0

\* after a rehash, an address sits away from the slot its hash points at
C37_Witness ==
    /\ Len(dedup_hash.table) > TableInit
    /\ \E i \in 1..Len(dedup_hash.table) :
           /\ dedup_hash.table[i] # 0
           /\ AndMask(NodeHashCompiled(Builder, dedup_hash.table[i]),
                      dedup_hash.mask) + 1 # i

\* C38: before finish, term_count() is the number of add calls that returned,
\* the empty key included, in every pruning configuration.
C38_TermCountIsAdds ==
    (status = "building" /\ inits > 0) => ~TermCountPanics /\ TermCount = Len(added)

\* the empty key and two keys, one of them pruned off the root
C38_Witness ==
    /\ status = "building"
    /\ cfg.min_suffix_count1 = 2
    /\ Len(added) = 3
    /\ added[1][1] = <<>>
    /\ Len(added[2][1]) = 1
    /\ Len(last_input) = 1
    /\ frontier[1].num_arcs = 1
    /\ Len(frontier[1].arcs) = 1
    /\ TermCount = 3

\* C39: hashing a node never aborts the build: no step of the node hash
\* leaves the 64-bit range as an unchecked addition.
C39_HashNeverAborts == err # "panic: add overflow"

====
